---------------------------- MODULE Spec2Model ----------------------------
(***************************************************************************)
(* A model of the Instagram Reels scraper (mazithesage/igscraper).         *)
(*                                                                         *)
(* The repository holds several independent flows that share one page:     *)
(*   - igscraper/scraper.py  scrape_reels         (SpecReels)              *)
(*   - igscraper/scraper.py  scrape_reel_details  (SpecDetails)            *)
(*   - igscraper/login.py    login_instagram, handle_2fa  (SpecLogin)      *)
(*   - main.py               main, login_instagram, handle_2fa (SpecMain)  *)
(*   - igscraper/browser.py  load_cookies, igscraper/login.py              *)
(*                           check_login_status          (SpecSession)     *)
(*   - igscraper/proxy_rotator.py  ProxyRotator          (SpecProxy)       *)
(*   - database.py           DatabaseManager             (SpecDb)          *)
(*   - main.py               scrape_post_urls_from_feed  (SpecFeed)        *)
(*   - config.py, main.py    check_credentials, __main__ (SpecStartup)     *)
(*   - igscraper/browser.py  try_click_not_now           (SpecPopup)       *)
(*   - proxy_rotation.py     ProxyRotator (legacy)   (SpecLegacyProxy)     *)
(* Each flow is a sequential coroutine/function; its position is a pc      *)
(* variable, and every await/call whose outcome the environment (the       *)
(* browser, the page, the operator) decides is a nondeterministic choice.  *)
(***************************************************************************)
EXTENDS Integers, Sequences, FiniteSets, TLC

VARIABLES
    \* ---- igscraper/scraper.py: scrape_reels ----
    rpc,            \* position in scrape_reels
    last_height,    \* scraper.py:172/207
    attempts,       \* scraper.py:173  consecutive scrolls without height change
    scroll_count,   \* scraper.py:175
    reel_urls,      \* scraper.py:171  set of raw hrefs
    readings,       \* history: the last (at most 4) scroll-height readings
    scriptPos,      \* history: how far the readings follow Script (-1: departed)
    everStalled,    \* history: some scroll left the height unchanged
    reels_result,   \* what scrape_reels returned: "pending", "list", "empty"
    todo,           \* scraper.py:217  URLs of unique_reel_urls not yet iterated
    processed,      \* history: the URLs handed to scrape_reel_details, in order
    reels_data,     \* scraper.py:162/222  the URLs of the records appended
    failedUrls,     \* history: URLs for which scrape_reel_details returned None
    contentRead,    \* history: page.content() in the except clause: "none", "ok", "raised"
    seenOnPage,     \* history: every href some snapshot of the scroll loop held
    \* ---- igscraper/scraper.py: scrape_reel_details ----
    dpc,            \* position in scrape_reel_details
    reel_url,       \* the argument
    details,        \* scraper.py:29  the details dict (shortcode, caption, date)
    extracted_from_json,  \* scraper.py:48
    jsonld,         \* history: the JSON-LD payload the page held
    jsonCaption,    \* history: details["caption"] when Method 1 ended
    jsonDate,       \* history: details["date"] when Method 1 ended
    h1Queries,      \* history: calls of querySelector('h1')
    spanQueries,    \* history: calls of querySelector(span_selector)
    timeQueries,    \* history: calls of querySelector('time[datetime]')
    htmlError,      \* history: the HTML fallback's except clause ran
    screenshots,    \* history: calls of page.screenshot
    d_result,       \* what scrape_reel_details returned: "pending", "record", "None"
    majorError,     \* history: the outer except clause (scraper.py:143) was entered
    reelScreenshotFailed,  \* history: page.screenshot at scraper.py:152 raised
    \* ---- igscraper/login.py: login_instagram, handle_2fa ----
    lpc,            \* position in login_instagram / handle_2fa
    login_result,   \* what login_instagram returned: "pending", "True", "False"
    twofa_result,   \* what handle_2fa returned: "notCalled", "True", "False"
    errorFound,     \* login.py:151  an inline login-error element was found
    is_2fa_screen,  \* login.py:56
    twofaFail,      \* history: why handle_2fa gave up ("none" if it did not)
    detectedBy,     \* history: how the 2FA screen was detected ("none", "input", "keyword")
    screenshotFailed,  \* history: a diagnostic screenshot of login_instagram failed
    current_url,    \* login.py:175
    homeWait,       \* history: "notTried", "found", "timeout" (login.py:184)
    navTimedOut,    \* history: waitForNavigation raised (login.py:169)
    cookieWriteFailed, \* history: save_cookies caught an error and returned False
    formSubmits,    \* history: clicks of the login button
    handle2faCalls, \* history: calls of handle_2fa
    codeRequests,   \* history: calls of input() for the verification code
    codeTyped,      \* history: times a code was typed into the 2FA field
    confirmClicks,  \* history: clicks of the 2FA confirmation button
    urlChecks,      \* history: reads of page.url for the success check
    saveCookiesCalls,  \* history: calls of save_cookies
    loginScreenshots,  \* history: calls of page.screenshot in login_instagram
    loginSteps,     \* history: the steps of login_instagram taken, in order
    \* ---- main.py: main, login_instagram, handle_2fa ----
    mpc,            \* position in main() and in the functions it calls
    phase,          \* "loop": inside `while True` (973-1035); "post": after it
    mode,           \* main.py:974
    driver,         \* main.py:965/976/1035  "None" or "open"
    rounds,         \* history: passes of the while loop started
    is_logged_in,   \* main.py:985/1050
    session_valid,  \* main.py:988/1056
    logged_in,      \* main.py:668 (login_instagram)
    m_twofa,        \* what main.py's handle_2fa did: "notCalled", "True", "False", "raised"
    m_twofaPath,    \* history: the path handle_2fa took
    m_login,        \* what main.py's login_instagram returned
    authObserved,   \* history: a login check or login_instagram saw a logged-in page
    usernames,      \* main.py:1008  number of accounts of the bulk list
    acct,           \* main.py:1013  accounts of the list analysed so far
    accountsScraped,   \* history: calls of analyze_account_performance
    driversCreated, \* history: drivers setup_driver returned
    driversQuit,    \* history: calls of driver.quit()
    m_done,         \* main() has returned
    analysed,       \* history: the accounts handed to analyze_account_performance, in order
    outcomes,       \* history: how each of these analyses ended
    all_results,    \* main.py:1012/1020  the accounts with an entry in all_results
    exported,       \* history: the report written at 1023: <<>> or <<its accounts>>
    quitFailed,     \* history: a call of driver.quit() raised
    m_escaped,      \* an exception left main()
    \* ---- igscraper/browser.py load_cookies, igscraper/login.py check_login_status ----
    spc,            \* position in the session bootstrap
    envValue,       \* config.py:36  what INSTAGRAM_SESSION_COOKIES holds
    cookieFile,     \* what instagram_cookies.json holds ("unread": not looked at)
    cookies_loaded, \* browser.py:59/71/95
    lc_result,      \* what load_cookies returned
    appliedFrom,    \* history: the source whose cookies setCookie accepted
    setCookieCalls, \* history: calls of page.setCookie
    fileChecks,     \* history: calls of cookies_path.exists()
    fileReads,      \* history: calls of open(cookies_path)
    cls_result,     \* what check_login_status returned
    clsError,       \* history: the step of check_login_status that raised
    usernameField,  \* history: what querySelector('input[name="username"]') gave
    \* ---- igscraper/proxy_rotator.py: ProxyRotator ----
    ppc,            \* "new": not constructed yet; "ready": constructed
    proxy_file,     \* the constructor's argument (its kind)
    fileLines,      \* the lines of the proxy file, as the constructor read them
    proxies,        \* self.proxies
    enabled,        \* self.enabled
    proxy_cycler,   \* self.proxy_cycler: the state of itertools.cycle, or NoCycler
    calls,          \* history: calls of get_next_proxy
    last_proxy,     \* history: what the last call of get_next_proxy returned
    \* ---- database.py: DatabaseManager ----
    reels,          \* self.reels: the documents of the collection
    dbCalls,        \* history: calls of the DatabaseManager methods
    lastBatch,      \* history: the argument of the last bulk_insert_reels
    reelsBefore,    \* history: the collection before that call
    insertRaised,   \* history: insert_many raised in that call
    serverState,    \* history: the server during the last call: "up" or "down"
    bulkReturn,     \* what the last bulk_insert_reels returned or printed
    processedAnswer, \* what the last is_reel_processed returned
    lastScheduled,  \* history: the URLs the last process_reel_batch scheduled a scrape for
    \* ---- main.py: scrape_post_urls_from_feed ----
    fpc,            \* position in scrape_post_urls_from_feed
    post_urls,      \* main.py:810
    f_last_height,  \* main.py:811/955
    attempts_without_new_content,  \* main.py:812
    attempt,        \* main.py:816  passes of the for loop completed
    f_max_urls,     \* the max_urls argument
    stalledRun,     \* history: the stalled scrolls since the last scroll that was not stalled
    stopReason,     \* history: why the loop ended: "none", "max", "stall", "exhausted"
    linksSeen,      \* history: the links of all snapshots so far
    \* ---- config.py: check_credentials; main.py: the __main__ block ----
    cpc,            \* config module: "unloaded", "loaded", "checked"
    cfg_username,   \* config.py:33
    cfg_password,   \* config.py:34
    env_exists,     \* ENV_PATH.exists()
    credResult,     \* what check_credentials did: "notCalled", "True", or the error
    entry,          \* main.py __main__ block: "notRun", "rejected", "main"
    m_username,     \* main.py:43
    m_password,     \* main.py:44
    \* ---- igscraper/browser.py: try_click_not_now ----
    npc,            \* position in try_click_not_now
    nn_index,       \* the index of the selector the for loop is at
    clicked_any,    \* browser.py:118/131
    nn_log,         \* history: the selectors waited for, with the wait used and its outcome
    nn_result,      \* what try_click_not_now returned: "pending", "True", "False", "raised"
    \* ---- proxy_rotation.py: the legacy ProxyRotator ----
    lp_proxies,     \* self.proxies
    current_index,  \* self.current_index
    lp_refreshed,   \* self.last_refresh was set by a successful refresh
    lp_calls,       \* history: calls of the methods
    lp_last,        \* what the last get_next_proxy did: "notCalled", "None", a proxy, "IndexError"
    lp_lenAtReturn  \* history: len(self.proxies) when that call ended

reelsVars == <<rpc, last_height, attempts, scroll_count, reel_urls,
               readings, scriptPos, everStalled, reels_result,
               todo, processed, reels_data, failedUrls, contentRead,
               seenOnPage>>

batchVars == <<todo, processed, reels_data, failedUrls, contentRead>>

detailVars == <<dpc, reel_url, details, extracted_from_json, jsonld,
                jsonCaption, jsonDate, h1Queries, spanQueries, timeQueries,
                htmlError, screenshots, d_result, majorError,
                reelScreenshotFailed>>

diagVars == <<majorError, reelScreenshotFailed>>

loginVars == <<lpc, login_result, twofa_result, errorFound, is_2fa_screen,
               twofaFail, detectedBy, screenshotFailed, current_url, homeWait, navTimedOut, cookieWriteFailed,
               formSubmits, handle2faCalls, codeRequests, codeTyped,
               confirmClicks, urlChecks, saveCookiesCalls, loginScreenshots,
               loginSteps>>

mainVars == <<mpc, phase, mode, driver, rounds, is_logged_in, session_valid,
              logged_in, m_twofa, m_twofaPath, m_login, authObserved,
              usernames, acct, accountsScraped, driversCreated, driversQuit,
              m_done, analysed, outcomes, all_results, exported,
              quitFailed, m_escaped>>

cleanupVars == <<quitFailed, m_escaped>>

bulkVars == <<analysed, outcomes, all_results, exported>>

sessionVars == <<spc, envValue, cookieFile, cookies_loaded, lc_result,
                 appliedFrom, setCookieCalls, fileChecks, fileReads,
                 cls_result, clsError, usernameField>>

feedVars == <<fpc, post_urls, f_last_height, attempts_without_new_content,
              attempt, f_max_urls, stalledRun, stopReason, linksSeen>>

startupVars == <<cpc, cfg_username, cfg_password, env_exists, credResult,
                 entry, m_username, m_password>>

dbVars == <<reels, dbCalls, lastBatch, reelsBefore, insertRaised, serverState,
            bulkReturn, processedAnswer, lastScheduled>>

proxyVars == <<ppc, proxy_file, fileLines, proxies, enabled, proxy_cycler,
               calls, last_proxy>>

popupVars == <<npc, nn_index, clicked_any, nn_log, nn_result>>

legacyVars == <<lp_proxies, current_index, lp_refreshed, lp_calls, lp_last,
                lp_lenAtReturn>>

otherThanLegacy == <<reelsVars, detailVars, loginVars, mainVars, sessionVars,
                     proxyVars, dbVars, feedVars, startupVars, popupVars>>

otherThanPopup == <<reelsVars, detailVars, loginVars, mainVars, sessionVars,
                    proxyVars, dbVars, feedVars, startupVars,
    legacyVars>>
otherThanReels == <<detailVars, loginVars, mainVars, sessionVars, proxyVars,
    dbVars, feedVars,
    startupVars,
    popupVars,
    legacyVars>>
otherThanDetails == <<reelsVars, loginVars, mainVars, sessionVars, proxyVars,
    dbVars, feedVars,
    startupVars,
    popupVars,
    legacyVars>>
otherThanLogin == <<reelsVars, detailVars, mainVars, sessionVars, proxyVars,
    dbVars, feedVars,
    startupVars,
    popupVars,
    legacyVars>>
otherThanMain == <<reelsVars, detailVars, loginVars, sessionVars, proxyVars,
    dbVars, feedVars,
    startupVars,
    popupVars,
    legacyVars>>
otherThanSession == <<reelsVars, detailVars, loginVars, mainVars, proxyVars,
    dbVars, feedVars,
    startupVars,
    popupVars,
    legacyVars>>
otherThanProxy == <<reelsVars, detailVars, loginVars, mainVars, sessionVars,
                    dbVars, feedVars,
    startupVars,
    popupVars,
    legacyVars>>
otherThanDb == <<reelsVars, detailVars, loginVars, mainVars, sessionVars,
                 proxyVars, feedVars,
    startupVars,
    popupVars,
    legacyVars>>
otherThanFeed == <<reelsVars, detailVars, loginVars, mainVars, sessionVars,
                   proxyVars, dbVars, startupVars,
    popupVars,
    legacyVars>>
otherThanStartup == <<reelsVars, detailVars, loginVars, mainVars, sessionVars,
                      proxyVars, dbVars, feedVars,
    popupVars,
    legacyVars>>

---------------------------------------------------------------------------
(* Values shared by the flows.                                             *)

\* Python's None, as a value distinct from every string the page can yield.
None == "<None>"

\* Python truthiness of an optional string: None and "" are falsy.
Truthy(v) == v /= None /\ v /= ""

---------------------------------------------------------------------------
(* URLs.  A URL is a sequence of text pieces; the pieces that the code's   *)
(* string operations look for ("/reel/", "/", "?") are pieces of their own.*)

UrlA      == <<"https:", "/", "/", "x", "/reel/", "A", "/">>
UrlAQuery == <<"https:", "/", "/", "x", "/reel/", "A", "/", "?", "hl=en">>
UrlB      == <<"https:", "/", "/", "x", "/reel/", "B", "/">>
UrlBare   == <<"https:", "/", "/", "x", "/reel/">>

\* The hrefs a profile page can show: every one matches a[href*="/reel/"].
UrlUniverse == {UrlA, UrlAQuery, UrlB, UrlBare}

\* Index of the first piece equal to p, or 0.
FirstIndex(url, p) ==
    IF \E i \in 1..Len(url) : url[i] = p
    THEN CHOOSE i \in 1..Len(url) :
            url[i] = p /\ \A j \in 1..(i - 1) : url[j] /= p
    ELSE 0

\* The canonical form of the specification: the URL cut at its query string.
CanonicalKeepsQuery(url) == url
Canonical(url) ==
    IF FirstIndex(url, "?") = 0 THEN url
    ELSE SubSeq(url, 1, FirstIndex(url, "?") - 1)

\* Index of the last piece equal to p, or 0.
LastIndex(url, p) ==
    IF \E i \in 1..Len(url) : url[i] = p
    THEN CHOOSE i \in 1..Len(url) :
            url[i] = p /\ \A j \in (i + 1)..Len(url) : url[j] /= p
    ELSE 0

\* reel_url.split("/reel/")[-1].split("/")[0]
ShortcodeOf(url) ==
    LET after == SubSeq(url, LastIndex(url, "/reel/") + 1, Len(url))
        cut   == FirstIndex(after, "/")
    IN  IF cut = 0 THEN after ELSE SubSeq(after, 1, cut - 1)

\* Python truthiness of the shortcode string: the empty string is falsy.
HasShortcode(sc) == sc /= <<>>

---------------------------------------------------------------------------
(* scrape_reels: the scroll loop.                                          *)

max_scroll_attempts == 25
StallLimit == 3

\* Bound of the model: how many distinct scroll heights the page can report.
NumHeights == 3
Heights == {100 + 50 * i : i \in 0..(NumHeights - 1)}

\* The scripted readings of the specification's stall scenario.
Script == <<100, 150, 150, 150, 150>>

\* while attempts < 3 and scroll_count < max_scroll_attempts
LoopConditionUncapped == attempts < StallLimit
LoopCondition == attempts < StallLimit /\ scroll_count < max_scroll_attempts

\* if new_height == last_height: attempts += 1  else: attempts = 0
NextAttemptsNoReset(new_height, old_height, att) ==
    IF new_height = old_height THEN att + 1 ELSE att
NextAttempts(new_height, old_height, att) ==
    IF new_height = old_height THEN att + 1 ELSE 0

\* reel_urls.update(new_urls_on_page): a set of the raw href strings.
UpdateUrlsLatestOnly(urls, new_urls_on_page) == new_urls_on_page
UpdateUrls(urls, new_urls_on_page) == urls \cup new_urls_on_page

\* What scrape_reel_details(page, url) can return to scrape_reels: None, or
\* the record of the URL (a non-empty dict), the latter only when the URL
\* has a shortcode (scraper.py:27 and 135).
DetailsResults(url) ==
    IF HasShortcode(ShortcodeOf(url)) THEN {None, "record"} ELSE {None}

\* if details: reels_data.append(details)
AppendIfDetails(data, url, d) == IF Truthy(d) THEN Append(data, url) ELSE data

\* The for loop goes on to the remaining URLs whatever details was.
RestAfterKeepsUrl(rest, url, d) == rest
RestAfterStopOnFailure(rest, url, d) == IF Truthy(d) THEN rest \ {url} ELSE {}
RestAfter(rest, url, d) == rest \ {url}

\* Lines 232-245: what scrape_reels hands back from its except clause, by
\* the outcome of the diagnostic page.content() ("raised": the inner except
\* clause logs it).
ResultOnErrorUnguarded(o) == IF o = "raised" THEN "error" ELSE "empty"
ResultOnError(o) == "empty"

\* History bookkeeping (not program state).
Window(rs, h) == IF Len(rs) < 4 THEN Append(rs, h) ELSE Append(Tail(rs), h)
Follow(pos, h) ==
    IF pos >= 0 /\ pos < Len(Script) /\ Script[pos + 1] = h THEN pos + 1 ELSE -1

ReelsInit ==
    /\ rpc = "start"
    /\ last_height = 0
    /\ attempts = 0
    /\ scroll_count = 0
    /\ reel_urls = {}
    /\ readings = <<>>
    /\ scriptPos = 0
    /\ everStalled = FALSE
    /\ reels_result = "pending"
    /\ todo = {}
    /\ processed = <<>>
    /\ reels_data = <<>>
    /\ failedUrls = {}
    /\ contentRead = "none"
    /\ seenOnPage = {}

\* page.goto(target_url); last_height = document.body.scrollHeight
ReelsNavigate ==
    /\ rpc = "start"
    /\ \E h \in Heights :
          /\ last_height' = h
          /\ readings' = Window(readings, h)
          /\ scriptPos' = Follow(scriptPos, h)
    /\ rpc' = "loop"
    /\ UNCHANGED <<attempts, scroll_count, reel_urls, everStalled, reels_result>>
    /\ UNCHANGED batchVars
    /\ UNCHANGED seenOnPage
    /\ UNCHANGED otherThanReels

\* One pass of the while body: collect links, scroll, re-measure.
ScrollIteration ==
    /\ rpc = "loop"
    /\ LoopCondition
    /\ \E new_urls_on_page \in SUBSET UrlUniverse, new_height \in Heights :
          /\ reel_urls' = UpdateUrls(reel_urls, new_urls_on_page)
          /\ seenOnPage' = seenOnPage \cup new_urls_on_page
          /\ scroll_count' = scroll_count + 1
          /\ attempts' = NextAttempts(new_height, last_height, attempts)
          /\ last_height' = new_height
          /\ readings' = Window(readings, new_height)
          /\ scriptPos' = Follow(scriptPos, new_height)
          /\ everStalled' = (everStalled \/ new_height = last_height)
    /\ UNCHANGED <<rpc, reels_result>>
    /\ UNCHANGED batchVars
    /\ UNCHANGED otherThanReels

\* The while condition is false: unique_reel_urls = list(reel_urls).
LoopExit ==
    /\ rpc = "loop"
    /\ ~LoopCondition
    /\ rpc' = "scrolled"
    /\ todo' = reel_urls
    /\ UNCHANGED <<last_height, attempts, scroll_count, reel_urls,
                   readings, scriptPos, everStalled, reels_result,
                   processed, reels_data, failedUrls, contentRead>>
    /\ UNCHANGED seenOnPage
    /\ UNCHANGED otherThanReels

\* Lines 217-224, one pass of the for body: the next URL of
\* list(reel_urls) (a set has no order of its own: any remaining URL can be
\* the next) goes to scrape_reel_details, which returns a record or None;
\* a URL without a shortcode never yields a record (scraper.py:135).
ReelDetails ==
    /\ rpc = "scrolled"
    /\ todo /= {}
    /\ \E url \in todo : \E d \in DetailsResults(url) :
          /\ processed' = Append(processed, url)
          /\ reels_data' = AppendIfDetails(reels_data, url, d)
          /\ failedUrls' = IF Truthy(d) THEN failedUrls ELSE failedUrls \cup {url}
          /\ todo' = RestAfter(todo, url, d)
    /\ UNCHANGED <<rpc, last_height, attempts, scroll_count, reel_urls,
                   readings, scriptPos, everStalled, reels_result, contentRead>>
    /\ UNCHANGED seenOnPage
    /\ UNCHANGED otherThanReels

\* Lines 226-227: the list is exhausted, return reels_data.
ReelsReturn ==
    /\ rpc = "scrolled"
    /\ todo = {}
    /\ rpc' = "returned"
    /\ reels_result' = "list"
    /\ UNCHANGED <<last_height, attempts, scroll_count, reel_urls,
                   readings, scriptPos, everStalled>>
    /\ UNCHANGED batchVars
    /\ UNCHANGED seenOnPage
    /\ UNCHANGED otherThanReels

\* Lines 229-245: goto or a page.evaluate raises; the except clause reads
\* page.content() for the diagnosis (inside its own try/except) and
\* returns [].
ReelsRaise ==
    /\ rpc \in {"start", "loop"}
    /\ rpc = "loop" => LoopCondition
    /\ rpc' = "failed"
    /\ \E o \in {"ok", "raised"} :
          /\ contentRead' = o
          /\ reels_result' = ResultOnError(o)
    /\ UNCHANGED <<last_height, attempts, scroll_count, reel_urls,
                   readings, scriptPos, everStalled,
                   todo, processed, reels_data, failedUrls>>
    /\ UNCHANGED seenOnPage
    /\ UNCHANGED otherThanReels

NextReels ==
    \/ ReelsNavigate
    \/ ScrollIteration
    \/ LoopExit
    \/ ReelDetails
    \/ ReelsReturn
    \/ ReelsRaise

---------------------------------------------------------------------------
(* scrape_reel_details: shortcode, JSON-LD first, HTML fallback, validation.*)

\* The URLs scrape_reel_details is called with.
DetailUrls == {UrlA, UrlAQuery, UrlBare}

\* Python's `a or b`: a when a is truthy, else b.
PyOr(a, b) == IF Truthy(a) THEN a ELSE b

\* A JSON-LD object: data.get(key) is None for a missing key.
\* The "@type" text in pieces, <<>> for a missing key (the default "" of
\* data.get("@type", "")).
LdTypes == {<<"VideoObject">>, <<"Clip">>, <<"Movie", "Clip">>, <<"Article">>,
            <<>>}
LdObjects ==
    [type : LdTypes,
     caption : {None, "", "cap"},
     description : {None, "desc"},
     name : {None, "", "name"},
     uploadDate : {None, "up"},
     datePublished : {None, "", "pub"}]

NoObject == [type |-> <<>>, caption |-> None, description |-> None,
             name |-> None, uploadDate |-> None, datePublished |-> None]
Decoy == [type |-> <<"VideoObject">>, caption |-> "decoy", description |-> None,
          name |-> None, uploadDate |-> "decoy", datePublished |-> None]

\* What the page holds under script[type="application/ld+json"]:
\*   absent      no such element
\*   raises      querySelector/evaluate raises
\*   parseError  json.loads raises
\*   scalar      valid JSON that is neither a list nor an object
\*   emptyList   []
\*   list        [obj, Decoy]
\*   dict        obj
Payloads ==
    {[kind |-> k, obj |-> NoObject] :
        k \in {"absent", "raises", "parseError", "scalar", "emptyList"}}
    \cup {[kind |-> k, obj |-> o] : k \in {"list", "dict"}, o \in LdObjects}

\* "VideoObject" in data.get("@type", "") or "Clip" in data.get("@type", "")
\* (a substring test).
TypeMatches(t) == \E i \in 1..Len(t) : t[i] \in {"VideoObject", "Clip"}

\* The object Method 1 reads its fields from, when it reaches that point.
LdUsableAnyType(payload) == payload.kind \in {"list", "dict"}
LdUsable(payload) ==
    payload.kind \in {"list", "dict"} /\ TypeMatches(payload.obj.type)

\* data.get("caption") or data.get("description") or data.get("name")
LdCaptionNameFirst(o) == PyOr(PyOr(o.name, o.description), o.caption)
LdCaption(o) == PyOr(PyOr(o.caption, o.description), o.name)
\* data.get("uploadDate") or data.get("datePublished")
LdDate(o) == PyOr(o.uploadDate, o.datePublished)

\* Outcome of one element lookup of the HTML fallback:
\*   raises      querySelector raises
\*   absent      no element
\*   evalRaises  element found, page.evaluate raises
\*   empty       element found, text/attribute is ""
\*   text        element found, text/attribute is non-empty
Outcomes == {"raises", "absent", "evalRaises", "empty", "text"}
Raised(o) == o \in {"raises", "evalRaises"}
Found(o) == o \in {"empty", "text"}
TextOf(o, t) == IF o = "text" THEN t ELSE ""

\* if not details["caption"]:  (line 97)
NeedsCaptionFallbackAlways(cap) == TRUE
NeedsCaptionFallback(cap) == ~Truthy(cap)
\* if not details["date"]:  (line 119)
NeedsDateFallback(dt) == ~Truthy(dt)

\* if details["shortcode"] and (details["caption"] or details["date"])
IsValidIgnoringShortcode(d) == Truthy(d.caption) \/ Truthy(d.date)
IsValid(d) == HasShortcode(d.shortcode) /\ (Truthy(d.caption) \/ Truthy(d.date))

\* Lines 29-36: the dict every result of scrape_reel_details starts from;
\* the later lines assign to "caption" and "date" only.
NewDetails(sc, url) ==
    [shortcode |-> sc, url |-> url, is_video |-> TRUE, type |-> "Reel",
     date |-> None, caption |-> None]

DetailsInit ==
    /\ dpc = "start"
    /\ reel_url = <<>>
    /\ details = NewDetails(<<>>, <<>>)
    /\ extracted_from_json = FALSE
    /\ jsonld = [kind |-> "absent", obj |-> NoObject]
    /\ jsonCaption = None
    /\ jsonDate = None
    /\ h1Queries = 0
    /\ spanQueries = 0
    /\ timeQueries = 0
    /\ htmlError = FALSE
    /\ screenshots = 0
    /\ d_result = "pending"
    /\ majorError = FALSE
    /\ reelScreenshotFailed = FALSE

\* Lines 27-36: the call, the shortcode and the initial details dict.
DetailsCall ==
    /\ dpc = "start"
    /\ \E url \in DetailUrls :
          /\ reel_url' = url
          /\ details' = NewDetails(ShortcodeOf(url), url)
    /\ dpc' = "goto"
    /\ UNCHANGED <<extracted_from_json, jsonld, jsonCaption, jsonDate,
                   h1Queries, spanQueries, timeQueries, htmlError,
                   screenshots, d_result>>
    /\ UNCHANGED diagVars
    /\ UNCHANGED otherThanDetails

\* Lines 42-44: page.goto succeeds.
DetailsGoto ==
    /\ dpc = "goto"
    /\ dpc' = "json"
    /\ UNCHANGED <<reel_url, details, extracted_from_json, jsonld,
                   jsonCaption, jsonDate, h1Queries, spanQueries,
                   timeQueries, htmlError, screenshots, d_result>>
    /\ UNCHANGED diagVars
    /\ UNCHANGED otherThanDetails

\* Lines 42, 143-145: page.goto raises; the outer except clause runs.
DetailsGotoRaises ==
    /\ dpc = "goto"
    /\ dpc' = "major"
    /\ majorError' = TRUE
    /\ UNCHANGED reelScreenshotFailed
    /\ UNCHANGED <<reel_url, details, extracted_from_json, jsonld,
                   jsonCaption, jsonDate, h1Queries, spanQueries,
                   timeQueries, htmlError, screenshots, d_result>>
    /\ UNCHANGED otherThanDetails

\* Lines 46-90: Method 1, the embedded JSON-LD.
Method1 ==
    /\ dpc = "json"
    /\ \E payload \in Payloads :
          LET cap == IF LdUsable(payload) THEN LdCaption(payload.obj)
                     ELSE details.caption
              dt  == IF LdUsable(payload) THEN LdDate(payload.obj)
                     ELSE details.date
          IN  /\ jsonld' = payload
              /\ details' = [details EXCEPT !.caption = cap, !.date = dt]
              /\ extracted_from_json' =
                    (LdUsable(payload) /\ (Truthy(cap) \/ Truthy(dt)))
              /\ jsonCaption' = cap
              /\ jsonDate' = dt
    /\ dpc' = "html"
    /\ UNCHANGED <<reel_url, h1Queries, spanQueries, timeQueries, htmlError,
                   screenshots, d_result>>
    /\ UNCHANGED diagVars
    /\ UNCHANGED otherThanDetails

\* Lines 92-131: Method 2, the HTML fallback for what is still missing.
Method2 ==
    /\ dpc = "html"
    /\ \E h1o \in Outcomes, spo \in Outcomes, tmo \in Outcomes :
          LET enter   == ~Truthy(details.caption) \/ ~Truthy(details.date)
              doCap   == enter /\ NeedsCaptionFallback(details.caption)
              doSpan  == doCap /\ h1o = "absent"
              capErr  == doCap /\ (Raised(h1o) \/ (doSpan /\ Raised(spo)))
              cap     == IF doCap /\ Found(h1o) THEN TextOf(h1o, "h1 text")
                         ELSE IF doSpan /\ Found(spo)
                              THEN TextOf(spo, "span text")
                         ELSE details.caption
              doDate  == enter /\ ~capErr /\ NeedsDateFallback(details.date)
              dt      == IF doDate /\ Found(tmo) THEN TextOf(tmo, "2024-05-01")
                         ELSE details.date
          IN  /\ details' = [details EXCEPT !.caption = cap, !.date = dt]
              /\ h1Queries' = h1Queries + (IF doCap THEN 1 ELSE 0)
              /\ spanQueries' = spanQueries + (IF doSpan THEN 1 ELSE 0)
              /\ timeQueries' = timeQueries + (IF doDate THEN 1 ELSE 0)
              /\ htmlError' = (capErr \/ (doDate /\ Raised(tmo)))
    /\ dpc' = "validate"
    /\ UNCHANGED <<reel_url, extracted_from_json, jsonld, jsonCaption,
                   jsonDate, screenshots, d_result>>
    /\ UNCHANGED diagVars
    /\ UNCHANGED otherThanDetails

\* Lines 133-141: the final validation and the return.
Validate ==
    /\ dpc = "validate"
    /\ d_result' = IF IsValid(details) THEN "record" ELSE "None"
    /\ dpc' = "returned"
    /\ UNCHANGED <<reel_url, details, extracted_from_json, jsonld,
                   jsonCaption, jsonDate, h1Queries, spanQueries,
                   timeQueries, htmlError, screenshots>>
    /\ UNCHANGED diagVars
    /\ UNCHANGED otherThanDetails

\* Lines 147-156: what the outer except clause returns, by whether the
\* screenshot raised (the inner except clause at 154 logs it).
ResultAfterMajorUnguarded(ssFails) == IF ssFails THEN "error" ELSE "None"
ResultAfterMajor(ssFails) == "None"

\* Lines 146-156: the diagnostic screenshot (which may itself fail), None.
MajorError ==
    /\ dpc = "major"
    /\ screenshots' = screenshots + 1
    /\ \E ssFails \in BOOLEAN :
          /\ reelScreenshotFailed' = ssFails
          /\ d_result' = ResultAfterMajor(ssFails)
    /\ dpc' = "returned"
    /\ UNCHANGED majorError
    /\ UNCHANGED <<reel_url, details, extracted_from_json, jsonld,
                   jsonCaption, jsonDate, h1Queries, spanQueries,
                   timeQueries, htmlError>>
    /\ UNCHANGED otherThanDetails

NextDetails ==
    \/ DetailsCall
    \/ DetailsGoto
    \/ DetailsGotoRaises
    \/ Method1
    \/ Method2
    \/ Validate
    \/ MajorError

---------------------------------------------------------------------------
(* igscraper/login.py: login_instagram and handle_2fa.                     *)

\* The URLs the page can be at after the login/2FA actions.
UrlHome      == <<"https:", "/", "/", "www.", "instagram.com", "/">>
UrlOneTap    == <<"https:", "/", "/", "www.", "instagram.com", "/",
                  "accounts", "/", "onetap", "/">>
UrlLogin     == <<"https:", "/", "/", "www.", "instagram.com", "/",
                  "accounts", "/", "login", "/">>
UrlChallenge == <<"https:", "/", "/", "www.", "instagram.com", "/",
                  "challenge", "/">>
UrlElsewhere == <<"https:", "/", "/", "example.com", "/">>
UrlElsewhereLogin == <<"https:", "/", "/", "example.com", "/", "login">>
LoginUrls == {UrlHome, UrlOneTap, UrlLogin, UrlChallenge, UrlElsewhere,
              UrlElsewhereLogin}

\* Python's `s in url` on the pieces of the URL.
Contains(url, s) == \E i \in 1..Len(url) : url[i] = s

\* 'instagram.com' in current_url and 'login' not in current_url
\*    and 'challenge' not in current_url
IsUrlOk(url) ==
    /\ Contains(url, "instagram.com")
    /\ ~Contains(url, "login")
    /\ ~Contains(url, "challenge")

\* if error_message: ... return False   (login.py:152-156)
FailsFastNever(found) == FALSE
FailsFast(found) == found

\* if not await handle_2fa(page): return False   (login.py:159-161)
ProceedsAfter2faAlways(r) == TRUE
ProceedsAfter2fa(r) == r = "True"

\* The value returned once the URL is accepted, whether or not the
\* Home/Inbox element was found (login.py:187, 193).
ResultAfterHomeStrict(found) == IF found THEN "True" ELSE "False"
ResultAfterHome(found) == "True"

\* save_cookies is awaited in the try branch and in the except branch
\* (login.py:186, 192).
SaveCallsOnlyWhenFound(found) == IF found THEN 1 ELSE 0
SaveCalls(found) == 1

LoginInit ==
    /\ lpc = "start"
    /\ login_result = "pending"
    /\ twofa_result = "notCalled"
    /\ errorFound = FALSE
    /\ is_2fa_screen = FALSE
    /\ twofaFail = "none"
    /\ detectedBy = "none"
    /\ screenshotFailed = FALSE
    /\ current_url = <<>>
    /\ homeWait = "notTried"
    /\ navTimedOut = FALSE
    /\ cookieWriteFailed = FALSE
    /\ formSubmits = 0
    /\ handle2faCalls = 0
    /\ codeRequests = 0
    /\ codeTyped = 0
    /\ confirmClicks = 0
    /\ urlChecks = 0
    /\ saveCookiesCalls = 0
    /\ loginScreenshots = 0
    /\ loginSteps = <<>>

\* Lines 123-147: navigate, type the credentials, click the login button.
LoginSubmit ==
    /\ lpc = "start"
    /\ formSubmits' = formSubmits + 1
    /\ lpc' = "errorCheck"
    /\ UNCHANGED <<login_result, twofa_result, errorFound, is_2fa_screen,
                   twofaFail, detectedBy, screenshotFailed, current_url, homeWait, navTimedOut,
                   cookieWriteFailed, handle2faCalls, codeRequests, codeTyped,
                   confirmClicks, urlChecks, saveCookiesCalls,
                   loginScreenshots>>
    /\ loginSteps' = loginSteps \o <<"username", "password", "submit">>
    /\ UNCHANGED otherThanLogin

\* Lines 124-144, 207-217: goto, a waitForSelector or typing raises before
\* the click; the outer except clause takes a screenshot and returns False.
LoginSubmitRaises ==
    /\ lpc = "start"
    /\ loginScreenshots' = loginScreenshots + 1
    /\ \E ssFails \in BOOLEAN : screenshotFailed' = ssFails
    /\ login_result' = "False"
    /\ lpc' = "returned"
    /\ UNCHANGED <<twofa_result, errorFound, is_2fa_screen, twofaFail, detectedBy,
                   current_url, homeWait, navTimedOut, cookieWriteFailed,
                   formSubmits, handle2faCalls, codeRequests, codeTyped,
                   confirmClicks, urlChecks, saveCookiesCalls>>
    /\ \E typed \in {<<>>, <<"username">>, <<"username", "password">>} :
          loginSteps' = loginSteps \o typed
    /\ UNCHANGED otherThanLogin

\* Lines 149-156: the immediate inline error message.
\*   absent      no error element
\*   found       error element found and its text read: return False
\*   evalRaises  error element found, reading its text raises (outer except)
\*   raises      querySelector raises (outer except)
ErrorCheck ==
    /\ lpc = "errorCheck"
    /\ \E o \in {"absent", "found", "evalRaises", "raises"} :
          LET found == o \in {"found", "evalRaises"}
              raised == o \in {"raises", "evalRaises"}
          IN  /\ errorFound' = found
              /\ IF raised
                 THEN /\ loginScreenshots' = loginScreenshots + 1
                      /\ \E ssFails \in BOOLEAN : screenshotFailed' = ssFails
                      /\ login_result' = "False"
                      /\ lpc' = "returned"
                 ELSE IF FailsFast(found)
                 THEN /\ login_result' = "False"
                      /\ lpc' = "returned"
                      /\ UNCHANGED <<loginScreenshots, screenshotFailed>>
                 ELSE /\ lpc' = "twofa"
                      /\ UNCHANGED <<login_result, loginScreenshots,
                                     screenshotFailed>>
    /\ UNCHANGED <<twofa_result, is_2fa_screen, twofaFail, detectedBy, current_url,
                   homeWait, navTimedOut, cookieWriteFailed, formSubmits,
                   handle2faCalls, codeRequests, codeTyped, confirmClicks,
                   urlChecks, saveCookiesCalls>>
    /\ loginSteps' = Append(loginSteps, "errorCheck")
    /\ UNCHANGED otherThanLogin

\* handle_2fa, lines 56-77: is_2fa_screen after the two detection methods,
\* from what the page showed (the outcomes listed at Handle2faDetect).
Is2faScreenAlways(o) == TRUE
Is2faScreen(o) == o \in {"input", "keyword"}

\* handle_2fa, lines 51-77 and 111-118: detect the 2FA screen.
\*   input          waitForSelector finds input[name="verificationCode"]
\*   keyword        it times out, a 2FA keyword is in page.content()
\*   none           it times out, no keyword: return True
\*   contentRaises  it times out, page.content() raises: return False
Handle2faDetect ==
    /\ lpc = "twofa"
    /\ handle2faCalls' = handle2faCalls + 1
    /\ \E o \in {"input", "keyword", "none", "contentRaises"} :
          /\ is_2fa_screen' = (o /= "contentRaises" /\ Is2faScreen(o))
          /\ detectedBy' = IF o \in {"input", "keyword"} THEN o ELSE "none"
          /\ twofa_result' = CASE o = "contentRaises" -> "False"
                               [] ~Is2faScreen(o) -> "True"
                               [] OTHER -> twofa_result
          /\ twofaFail' = IF o = "contentRaises" THEN "exception" ELSE twofaFail
          /\ lpc' = IF o /= "contentRaises" /\ Is2faScreen(o)
                    THEN "tf_code" ELSE "tf_returned"
    /\ UNCHANGED <<login_result, errorFound, screenshotFailed, current_url, homeWait,
                   navTimedOut, cookieWriteFailed, formSubmits, codeRequests,
                   codeTyped, confirmClicks, urlChecks, saveCookiesCalls,
                   loginScreenshots>>
    /\ loginSteps' = Append(loginSteps, "2fa")
    /\ UNCHANGED otherThanLogin

\* handle_2fa, lines 78-85: ask the operator for the code.
\*   code  input() returns a code
\*   eof   input() raises EOFError (no interactive terminal): return False
Handle2faCode ==
    /\ lpc = "tf_code"
    /\ codeRequests' = codeRequests + 1
    /\ \E o \in {"code", "eof"} :
          /\ twofa_result' = IF o = "eof" THEN "False" ELSE twofa_result
          /\ twofaFail' = IF o = "eof" THEN "eof" ELSE twofaFail
          /\ lpc' = IF o = "eof" THEN "tf_returned" ELSE "tf_field"
    /\ UNCHANGED <<login_result, errorFound, is_2fa_screen, detectedBy,
                   screenshotFailed, current_url,
                   homeWait, navTimedOut, cookieWriteFailed, formSubmits,
                   handle2faCalls, codeTyped, confirmClicks, urlChecks,
                   saveCookiesCalls, loginScreenshots>>
    /\ UNCHANGED loginSteps
    /\ UNCHANGED otherThanLogin

\* handle_2fa, lines 87-95: find the code field and type the code.
\*   found       field found, code typed
\*   absent      no field: return False
\*   raises      querySelector raises: except clause, return False
\*   typeRaises  field found, typing raises: except clause, return False
Handle2faField ==
    /\ lpc = "tf_field"
    /\ \E o \in {"found", "absent", "raises", "typeRaises"} :
          /\ codeTyped' = codeTyped + (IF o = "found" THEN 1 ELSE 0)
          /\ twofa_result' = IF o = "found" THEN twofa_result ELSE "False"
          /\ twofaFail' = CASE o = "found" -> twofaFail
                            [] o = "absent" -> "noInput"
                            [] OTHER -> "exception"
          /\ lpc' = IF o = "found" THEN "tf_confirm" ELSE "tf_returned"
    /\ UNCHANGED <<login_result, errorFound, is_2fa_screen, detectedBy,
                   screenshotFailed, current_url,
                   homeWait, navTimedOut, cookieWriteFailed, formSubmits,
                   handle2faCalls, codeRequests, confirmClicks, urlChecks,
                   saveCookiesCalls, loginScreenshots>>
    /\ UNCHANGED loginSteps
    /\ UNCHANGED otherThanLogin

\* handle_2fa, lines 97-110: find and click the confirmation button.
\*   found        button found and clicked: return True
\*   absent       no button: return False
\*   raises       querySelector raises: except clause, return False
\*   clickRaises  button found, click raises: except clause, return False
Handle2faConfirm ==
    /\ lpc = "tf_confirm"
    /\ \E o \in {"found", "absent", "raises", "clickRaises"} :
          /\ confirmClicks' = confirmClicks + (IF o = "found" THEN 1 ELSE 0)
          /\ twofa_result' = IF o = "found" THEN "True" ELSE "False"
          /\ twofaFail' = CASE o = "found" -> twofaFail
                            [] o = "absent" -> "noConfirm"
                            [] OTHER -> "exception"
    /\ lpc' = "tf_returned"
    /\ UNCHANGED <<login_result, errorFound, is_2fa_screen, detectedBy,
                   screenshotFailed, current_url,
                   homeWait, navTimedOut, cookieWriteFailed, formSubmits,
                   handle2faCalls, codeRequests, codeTyped, urlChecks,
                   saveCookiesCalls, loginScreenshots>>
    /\ UNCHANGED loginSteps
    /\ UNCHANGED otherThanLogin

\* Lines 160-161: where login_instagram continues when handle_2fa
\* returned False: it returns False, nothing is tried again.
AfterFailed2faRetries(r) == "start"
AfterFailed2fa(r) == "returned"

\* Lines 159-161: login_instagram acts on what handle_2fa returned.
After2fa ==
    /\ lpc = "tf_returned"
    /\ IF ProceedsAfter2fa(twofa_result)
       THEN /\ lpc' = "nav"
            /\ UNCHANGED login_result
       ELSE /\ login_result' = IF AfterFailed2fa(twofa_result) = "returned"
                               THEN "False" ELSE login_result
            /\ lpc' = AfterFailed2fa(twofa_result)
    /\ UNCHANGED <<twofa_result, errorFound, is_2fa_screen, twofaFail, detectedBy, screenshotFailed,
                   current_url, homeWait, navTimedOut, cookieWriteFailed,
                   formSubmits, handle2faCalls, codeRequests, codeTyped,
                   confirmClicks, urlChecks, saveCookiesCalls,
                   loginScreenshots>>
    /\ UNCHANGED loginSteps
    /\ UNCHANGED otherThanLogin

\* Lines 165-173: where login_instagram continues after waitForNavigation,
\* by whether the wait raised (the except clause only logs and sleeps).
AfterNavWaitFailsOnTimeout(timedOut) ==
    IF timedOut THEN "returned" ELSE "urlCheck"
AfterNavWait(timedOut) == "urlCheck"

\* Lines 165-173: waitForNavigation; a timeout is logged and tolerated.
WaitNavigation ==
    /\ lpc = "nav"
    /\ \E timedOut \in BOOLEAN :
          /\ navTimedOut' = timedOut
          /\ lpc' = AfterNavWait(timedOut)
          /\ login_result' = IF AfterNavWait(timedOut) = "returned"
                             THEN "False" ELSE login_result
    /\ UNCHANGED <<twofa_result, errorFound, is_2fa_screen,
                   twofaFail, detectedBy, screenshotFailed, current_url, homeWait, cookieWriteFailed,
                   formSubmits, handle2faCalls, codeRequests, codeTyped,
                   confirmClicks, urlChecks, saveCookiesCalls,
                   loginScreenshots>>
    /\ UNCHANGED loginSteps
    /\ UNCHANGED otherThanLogin

\* Lines 175-179 and 194-205: read the URL; a URL that is not accepted
\* ends the login with a screenshot and False.
UrlCheck ==
    /\ lpc = "urlCheck"
    /\ urlChecks' = urlChecks + 1
    /\ \E url \in LoginUrls :
          /\ current_url' = url
          /\ IF IsUrlOk(url)
             THEN /\ lpc' = "home"
                  /\ UNCHANGED <<login_result, loginScreenshots,
                                 screenshotFailed>>
             ELSE /\ loginScreenshots' = loginScreenshots + 1
                  /\ \E ssFails \in BOOLEAN : screenshotFailed' = ssFails
                  /\ login_result' = "False"
                  /\ lpc' = "returned"
    /\ UNCHANGED <<twofa_result, errorFound, is_2fa_screen, twofaFail, detectedBy,
                   homeWait, navTimedOut, cookieWriteFailed, formSubmits,
                   handle2faCalls, codeRequests, codeTyped, confirmClicks,
                   saveCookiesCalls>>
    /\ loginSteps' = Append(loginSteps, "urlCheck")
    /\ UNCHANGED otherThanLogin

\* Lines 181-193 and browser.py:43-55: wait for the Home/Inbox element, save
\* the cookies (save_cookies catches every error and returns False), return.
HomeCheck ==
    /\ lpc = "home"
    /\ \E found \in BOOLEAN, writeFails \in BOOLEAN :
          /\ homeWait' = IF found THEN "found" ELSE "timeout"
          /\ saveCookiesCalls' = saveCookiesCalls + SaveCalls(found)
          /\ cookieWriteFailed' = (SaveCalls(found) > 0 /\ writeFails)
          /\ login_result' = ResultAfterHome(found)
    /\ lpc' = "returned"
    /\ UNCHANGED <<twofa_result, errorFound, is_2fa_screen, twofaFail, detectedBy, screenshotFailed,
                   current_url, navTimedOut, formSubmits, handle2faCalls,
                   codeRequests, codeTyped, confirmClicks, urlChecks,
                   loginScreenshots>>
    /\ UNCHANGED loginSteps
    /\ UNCHANGED otherThanLogin

NextLogin ==
    \/ LoginSubmit
    \/ LoginSubmitRaises
    \/ ErrorCheck
    \/ Handle2faDetect
    \/ Handle2faCode
    \/ Handle2faField
    \/ Handle2faConfirm
    \/ After2fa
    \/ WaitNavigation
    \/ UrlCheck
    \/ HomeCheck

---------------------------------------------------------------------------
(* main.py: main() with its own check_login_status, handle_2fa and         *)
(* login_instagram (the Selenium variant).                                 *)

\* Bounds of the model: passes of the `while True` loop, accounts of a list.
MaxRounds == 2
MaxAccounts == 2

\* What check_login_status (main.py:327-399) can see on the page.
Pages ==
    [raises : BOOLEAN,      \* driver.get or a lookup raises (line 397)
     loginForm : BOOLEAN,   \* an element named "username" exists (345)
     indicator : BOOLEAN,   \* a logged-in indicator is displayed (361-368)
     avatar : BOOLEAN,      \* a profile-picture image exists (372)
     stories : BOOLEAN,     \* a Stories bar exists (381)
     urlPath : BOOLEAN]     \* the URL is not LOGIN_URL and has a path (390)

\* check_login_status, main.py:327-399.
CheckLoginStatus(page) ==
    IF page.raises THEN FALSE
    ELSE IF page.loginForm THEN FALSE
    ELSE IF page.indicator THEN TRUE
    ELSE IF page.avatar THEN TRUE
    ELSE IF page.stories THEN TRUE
    ELSE page.urlPath

\* The paths through handle_2fa (main.py:403-614) and what each returns.
\*   none            no 2FA screen detected (603-605)
\*   verified        code entered, no longer on the verification screen (592-594)
\*   manualContinue  still on the screen, operator pressed Enter (588-591)
\*   failTyped       still on the screen, operator typed 'fail' (586-587)
\*   noFieldManual   no input field, operator typed 'manual' (599-601)
\*   noFieldAbort    no input field, operator typed something else (602)
\*   errorManual     an error, operator typed 'manual' (611-613)
\*   errorAbort      an error, operator typed something else (614)
\*   inputRaised     input() raises in the except clause: the error leaves handle_2fa
TwofaPaths == {"none", "verified", "manualContinue", "failTyped",
               "noFieldManual", "noFieldAbort", "errorManual", "errorAbort",
               "inputRaised"}
Handle2faReturn(path) ==
    CASE path \in {"none", "verified", "manualContinue", "noFieldManual",
                   "errorManual"} -> "True"
      [] path \in {"failTyped", "noFieldAbort", "errorAbort"} -> "False"
      [] OTHER -> "raised"

\* main.py:663-665: a False from handle_2fa is logged and the login goes on.
MainProceedsAfter2fa(r) == r \in {"True", "False"}

\* main.py:679-683: with no Home element, only an 'incorrect'/'wrong'
\* message fails the login.
MainLoginFails(home, errorMessages) == ~home /\ errorMessages

MainInit ==
    /\ mpc = "top"
    /\ phase = "loop"
    /\ mode = "none"
    /\ driver = "None"
    /\ rounds = 0
    /\ is_logged_in = FALSE
    /\ session_valid = FALSE
    /\ logged_in = FALSE
    /\ m_twofa = "notCalled"
    /\ m_twofaPath = "notCalled"
    /\ m_login = "notCalled"
    /\ authObserved = FALSE
    /\ usernames = 0
    /\ acct = 0
    /\ accountsScraped = 0
    /\ driversCreated = 0
    /\ driversQuit = 0
    /\ m_done = FALSE
    /\ analysed = <<>>
    /\ outcomes = <<>>
    /\ all_results = {}
    /\ exported = <<>>
    /\ quitFailed = FALSE
    /\ m_escaped = FALSE

\* Lines 973-978: select_scraping_mode and setup_driver succeed.
MainSetup ==
    /\ mpc = "top"
    /\ rounds < MaxRounds
    /\ \E m \in {"single", "bulk"} : mode' = m
    /\ driver' = "open"
    /\ driversCreated' = driversCreated + 1
    /\ rounds' = rounds + 1
    /\ is_logged_in' = FALSE
    /\ session_valid' = FALSE
    \* History of the pass: a new browser, nothing observed or tried yet.
    /\ authObserved' = FALSE
    /\ m_twofa' = "notCalled"
    /\ m_twofaPath' = "notCalled"
    /\ m_login' = "notCalled"
    /\ mpc' = "get"
    /\ UNCHANGED <<phase, logged_in, usernames, acct, accountsScraped,
                   driversQuit, m_done>>
    /\ UNCHANGED bulkVars
    /\ UNCHANGED cleanupVars
    /\ UNCHANGED otherThanMain

\* Lines 974-976, 1098: select_scraping_mode or setup_driver raises.
MainSetupRaises ==
    /\ mpc = "top"
    /\ mpc' = "critical"
    /\ UNCHANGED <<phase, mode, driver, rounds, is_logged_in, session_valid,
                   logged_in, m_twofa, m_twofaPath, m_login, authObserved,
                   usernames, acct, accountsScraped, driversCreated,
                   driversQuit, m_done>>
    /\ UNCHANGED bulkVars
    /\ UNCHANGED cleanupVars
    /\ UNCHANGED otherThanMain

\* Lines 982-987 and 1040-1052: driver.get, check_login_status.
MainCheckLogin ==
    /\ mpc = "get"
    /\ \E page \in Pages :
          /\ is_logged_in' = CheckLoginStatus(page)
          /\ authObserved' = (authObserved \/ CheckLoginStatus(page))
          /\ mpc' = IF CheckLoginStatus(page)
                    THEN (IF phase = "loop" THEN "scrape" ELSE "feed")
                    ELSE "cookies"
    /\ UNCHANGED <<phase, mode, driver, rounds, session_valid, logged_in,
                   m_twofa, m_twofaPath, m_login, usernames, acct,
                   accountsScraped, driversCreated, driversQuit, m_done>>
    /\ UNCHANGED bulkVars
    /\ UNCHANGED cleanupVars
    /\ UNCHANGED otherThanMain

\* Lines 982 and 1040, 1098: driver.get raises.
MainGetRaises ==
    /\ mpc = "get"
    /\ mpc' = "critical"
    /\ UNCHANGED <<phase, mode, driver, rounds, is_logged_in, session_valid,
                   logged_in, m_twofa, m_twofaPath, m_login, authObserved,
                   usernames, acct, accountsScraped, driversCreated,
                   driversQuit, m_done>>
    /\ UNCHANGED bulkVars
    /\ UNCHANGED cleanupVars
    /\ UNCHANGED otherThanMain

\* Lines 988-998 and 1056-1067: load_cookies, then check_login_status.
MainCookies ==
    /\ mpc = "cookies"
    /\ \E loaded \in BOOLEAN, page \in Pages :
          LET valid == loaded /\ CheckLoginStatus(page)
          IN  /\ session_valid' = valid
              /\ authObserved' = (authObserved \/ valid)
              /\ mpc' = IF valid
                        THEN (IF phase = "loop" THEN "scrape" ELSE "feed")
                        ELSE "login"
    /\ UNCHANGED <<phase, mode, driver, rounds, is_logged_in, logged_in,
                   m_twofa, m_twofaPath, m_login, usernames, acct,
                   accountsScraped, driversCreated, driversQuit, m_done>>
    /\ UNCHANGED bulkVars
    /\ UNCHANGED cleanupVars
    /\ UNCHANGED otherThanMain

\* login_instagram, lines 619-655: navigate, type, submit.
\*   ok       the form is submitted
\*   element  a wait or lookup raises NoSuchElement/Timeout: return False (705)
\*   get      driver.get(LOGIN_URL) raises outside the try: main's except
MainLoginSubmit ==
    /\ mpc = "login"
    /\ \E o \in {"ok", "element", "get"} :
          /\ m_login' = IF o = "element" THEN "False" ELSE "running"
          /\ mpc' = CASE o = "ok" -> "twofa"
                      [] o = "element" -> "loginDone"
                      [] OTHER -> "critical"
    /\ m_twofa' = "notCalled"
    /\ m_twofaPath' = "notCalled"
    /\ logged_in' = FALSE
    /\ UNCHANGED <<phase, mode, driver, rounds, is_logged_in, session_valid,
                   authObserved, usernames, acct, accountsScraped,
                   driversCreated, driversQuit, m_done>>
    /\ UNCHANGED bulkVars
    /\ UNCHANGED cleanupVars
    /\ UNCHANGED otherThanMain

\* login_instagram, lines 662-665, with handle_2fa, lines 403-614.
MainHandle2fa ==
    /\ mpc = "twofa"
    /\ \E path \in TwofaPaths :
          /\ m_twofaPath' = path
          /\ m_twofa' = Handle2faReturn(path)
          /\ IF MainProceedsAfter2fa(Handle2faReturn(path))
             THEN /\ mpc' = "home"
                  /\ UNCHANGED m_login
             ELSE /\ m_login' = "False"
                  /\ mpc' = "loginDone"
    /\ UNCHANGED <<phase, mode, driver, rounds, is_logged_in, session_valid,
                   logged_in, authObserved, usernames, acct, accountsScraped,
                   driversCreated, driversQuit, m_done>>
    /\ UNCHANGED bulkVars
    /\ UNCHANGED cleanupVars
    /\ UNCHANGED otherThanMain

\* login_instagram, lines 667-710: the Home element, the error messages,
\* the popups, save_cookies.
\*   home           the Home element appears within 10 s
\*   errorMessages  an 'incorrect'/'wrong' paragraph is on the page
\*   raises         a lookup raises something else: return False (708-710)
MainLoginVerify ==
    /\ mpc = "home"
    /\ \E home \in BOOLEAN, errorMessages \in BOOLEAN, raises \in BOOLEAN :
          /\ logged_in' = (home /\ ~raises)
          /\ authObserved' = (authObserved \/ (home /\ ~raises))
          /\ m_login' = IF raises \/ MainLoginFails(home, errorMessages)
                        THEN "False" ELSE "True"
    /\ mpc' = "loginDone"
    /\ UNCHANGED <<phase, mode, driver, rounds, is_logged_in, session_valid,
                   m_twofa, m_twofaPath, usernames, acct, accountsScraped,
                   driversCreated, driversQuit, m_done>>
    /\ UNCHANGED bulkVars
    /\ UNCHANGED cleanupVars
    /\ UNCHANGED otherThanMain

\* Lines 994-996 and 1063-1065: a failed login ends main().
MainAfterLogin ==
    /\ mpc = "loginDone"
    /\ mpc' = IF m_login = "True"
              THEN (IF phase = "loop" THEN "scrape" ELSE "feed")
              ELSE "finally"
    /\ UNCHANGED <<phase, mode, driver, rounds, is_logged_in, session_valid,
                   logged_in, m_twofa, m_twofaPath, m_login, authObserved,
                   usernames, acct, accountsScraped, driversCreated,
                   driversQuit, m_done>>
    /\ UNCHANGED bulkVars
    /\ UNCHANGED cleanupVars
    /\ UNCHANGED otherThanMain

\* Lines 1000-1005: single mode, one account.
MainSingle ==
    /\ mpc = "scrape"
    /\ mode = "single"
    /\ accountsScraped' = accountsScraped + 1
    /\ mpc' = "ask"
    /\ UNCHANGED <<phase, mode, driver, rounds, is_logged_in, session_valid,
                   logged_in, m_twofa, m_twofaPath, m_login, authObserved,
                   usernames, acct, driversCreated, driversQuit, m_done>>
    /\ UNCHANGED bulkVars
    /\ UNCHANGED cleanupVars
    /\ UNCHANGED otherThanMain

\* Lines 1007-1012: bulk mode, get_usernames_file.
\*   n = 0: the operator typed 'back' (None): `continue` to the loop top
\*   n > 0: a list of n accounts
MainBulkList ==
    /\ mpc = "scrape"
    /\ mode = "bulk"
    /\ \E n \in 0..MaxAccounts :
          /\ usernames' = n
          /\ mpc' = IF n = 0 THEN "top" ELSE "bulk"
    /\ acct' = 0
    /\ analysed' = <<>>
    /\ outcomes' = <<>>
    /\ all_results' = {}
    /\ exported' = <<>>
    /\ UNCHANGED <<phase, mode, driver, rounds, is_logged_in, session_valid,
                   logged_in, m_twofa, m_twofaPath, m_login, authObserved,
                   accountsScraped, driversCreated, driversQuit, m_done>>
    /\ UNCHANGED cleanupVars
    /\ UNCHANGED otherThanMain

\* analyze_account_performance, lines 171-197: what it returns by how the
\* analysis ended.
\*   raises   scrape_post_urls_from_feed or get_reel_info raises: []
\*   empty    no URL found, or no reel gave metrics: []
\*   results  a non-empty list of reel metrics
AnalysisOutcomes == {"raises", "empty", "results"}
AnalysisReturn(o) == IF o = "results" THEN "list" ELSE "[]"

\* Lines 1018-1020: if results: all_results[username] = results
CollectResultsLosingEarlier(all, i, r) == IF r = "list" THEN all \cup {i} ELSE {}
CollectResults(all, i, r) == IF r = "list" THEN all \cup {i} ELSE all

\* Lines 1013-1020: one account of the list (analyze_account_performance
\* catches every error and returns []).
MainBulkAccount ==
    /\ mpc = "bulk"
    /\ acct < usernames
    /\ acct' = acct + 1
    /\ accountsScraped' = accountsScraped + 1
    /\ \E o \in AnalysisOutcomes :
          /\ analysed' = Append(analysed, acct + 1)
          /\ outcomes' = Append(outcomes, o)
          /\ all_results' = CollectResults(all_results, acct + 1, AnalysisReturn(o))
    /\ mpc' = IF acct + 1 = usernames THEN "export" ELSE "bulk"
    /\ UNCHANGED <<phase, mode, driver, rounds, is_logged_in, session_valid,
                   logged_in, m_twofa, m_twofaPath, m_login, authObserved,
                   usernames, driversCreated, driversQuit, m_done, exported>>
    /\ UNCHANGED cleanupVars
    /\ UNCHANGED otherThanMain

\* Lines 1022-1025: the report of the bulk pass, written only when some
\* account gave results; writing it may raise (line 1098).
MainBulkExport ==
    /\ mpc = "export"
    /\ IF all_results = {}
          THEN /\ mpc' = "ask"
               /\ UNCHANGED exported
          ELSE \E ok \in BOOLEAN :
                  IF ok THEN /\ exported' = <<all_results>>
                             /\ mpc' = "ask"
                        ELSE /\ mpc' = "critical"
                             /\ UNCHANGED exported
    /\ UNCHANGED <<phase, mode, driver, rounds, is_logged_in, session_valid,
                   logged_in, m_twofa, m_twofaPath, m_login, authObserved,
                   usernames, acct, accountsScraped, driversCreated,
                   driversQuit, m_done, analysed, outcomes, all_results>>
    /\ UNCHANGED cleanupVars
    /\ UNCHANGED otherThanMain

\* Lines 1001-1005, 1022-1025, 1098: an input or the export raises.
MainScrapeRaises ==
    /\ mpc \in {"scrape", "ask"}
    /\ mpc' = "critical"
    /\ UNCHANGED <<phase, mode, driver, rounds, is_logged_in, session_valid,
                   logged_in, m_twofa, m_twofaPath, m_login, authObserved,
                   usernames, acct, accountsScraped, driversCreated,
                   driversQuit, m_done>>
    /\ UNCHANGED bulkVars
    /\ UNCHANGED cleanupVars
    /\ UNCHANGED otherThanMain

\* Lines 1027-1035: 'y' quits the driver and starts another pass. When
\* driver.quit() raises, `driver = None` is not reached and the except
\* clause at 1098 takes over.
MainAskYes ==
    /\ mpc = "ask"
    /\ rounds < MaxRounds
    /\ driversQuit' = driversQuit + (IF driver = "open" THEN 1 ELSE 0)
    /\ \E quitRaises \in BOOLEAN :
          IF driver = "open" /\ quitRaises
             THEN /\ quitFailed' = TRUE
                  /\ mpc' = "critical"
                  /\ UNCHANGED driver
             ELSE /\ driver' = "None"
                  /\ mpc' = "top"
                  /\ UNCHANGED quitFailed
    /\ UNCHANGED <<phase, mode, rounds, is_logged_in, session_valid,
                   logged_in, m_twofa, m_twofaPath, m_login, authObserved,
                   usernames, acct, accountsScraped, driversCreated, m_done,
                   m_escaped>>
    /\ UNCHANGED bulkVars
    /\ UNCHANGED otherThanMain

\* Lines 1028-1030, 1037-1041: any other answer breaks out of the loop;
\* the code after the loop starts with driver.get(INSTAGRAM_BASE_URL).
MainAskNo ==
    /\ mpc = "ask"
    /\ phase' = "post"
    /\ mpc' = "get"
    /\ UNCHANGED <<mode, driver, rounds, is_logged_in, session_valid,
                   logged_in, m_twofa, m_twofaPath, m_login, authObserved,
                   usernames, acct, accountsScraped, driversCreated,
                   driversQuit, m_done>>
    /\ UNCHANGED bulkVars
    /\ UNCHANGED cleanupVars
    /\ UNCHANGED otherThanMain

\* Lines 1070-1075, 1098: TARGET_PAGE_URL is not defined (line 235 is a
\* comment), so evaluating the call's arguments raises NameError.
MainFeed ==
    /\ mpc = "feed"
    /\ mpc' = "critical"
    /\ UNCHANGED <<phase, mode, driver, rounds, is_logged_in, session_valid,
                   logged_in, m_twofa, m_twofaPath, m_login, authObserved,
                   usernames, acct, accountsScraped, driversCreated,
                   driversQuit, m_done>>
    /\ UNCHANGED bulkVars
    /\ UNCHANGED cleanupVars
    /\ UNCHANGED otherThanMain

\* Lines 1098-1105: the except clause logs and tries a screenshot.
MainCritical ==
    /\ mpc = "critical"
    /\ mpc' = "finally"
    /\ UNCHANGED <<phase, mode, driver, rounds, is_logged_in, session_valid,
                   logged_in, m_twofa, m_twofaPath, m_login, authObserved,
                   usernames, acct, accountsScraped, driversCreated,
                   driversQuit, m_done>>
    /\ UNCHANGED bulkVars
    /\ UNCHANGED cleanupVars
    /\ UNCHANGED otherThanMain

\* Lines 1107-1110: the finally clause quits the driver the variable
\* holds; driver.quit() is not inside a try, so when it raises the
\* exception leaves main().
MainFinally ==
    /\ mpc = "finally"
    /\ driversQuit' = driversQuit + (IF driver = "open" THEN 1 ELSE 0)
    /\ \E quitRaises \in BOOLEAN :
          /\ quitFailed' = (quitFailed \/ (driver = "open" /\ quitRaises))
          /\ m_escaped' = (driver = "open" /\ quitRaises)
    /\ m_done' = TRUE
    /\ mpc' = "done"
    /\ UNCHANGED <<phase, mode, driver, rounds, is_logged_in, session_valid,
                   logged_in, m_twofa, m_twofaPath, m_login, authObserved,
                   usernames, acct, accountsScraped, driversCreated>>
    /\ UNCHANGED bulkVars
    /\ UNCHANGED otherThanMain

NextMain ==
    \/ MainSetup
    \/ MainSetupRaises
    \/ MainCheckLogin
    \/ MainGetRaises
    \/ MainCookies
    \/ MainLoginSubmit
    \/ MainHandle2fa
    \/ MainLoginVerify
    \/ MainAfterLogin
    \/ MainSingle
    \/ MainBulkList
    \/ MainBulkAccount
    \/ MainBulkExport
    \/ MainScrapeRaises
    \/ MainAskYes
    \/ MainAskNo
    \/ MainFeed
    \/ MainCritical
    \/ MainFinally

---------------------------------------------------------------------------
(* igscraper/browser.py load_cookies and igscraper/login.py                *)
(* check_login_status: the session bootstrap (SpecSession).                *)

\* What INSTAGRAM_SESSION_COOKIES (config.py:36, os.getenv) can hold:
\*   absent      the variable is not set (None)
\*   empty       it is set to the empty string
\*   unparsable  text that is not JSON
\*   object      JSON that is not a list
\*   emptyList   the JSON list []
\*   list        a JSON list of cookies
EnvValues == {"absent", "empty", "unparsable", "object", "emptyList", "list"}

\* What the cookie file can hold; "missing": no such file, "unreadable":
\* open() raises.
FileStates == {"missing", "unreadable", "unparsable", "object", "emptyList",
               "list"}

\* browser.py:62: `if INSTAGRAM_SESSION_COOKIES:` (None and "" are falsy).
EnvProvided(v) == v \notin {"absent", "empty"}

\* browser.py:66-67 and 90-92: json.loads / json.load followed by
\* isinstance(cookies, list): "error" (JSONDecodeError), "other", "list".
JsonKind(v) ==
    CASE v \in {"list", "emptyList"} -> "list"
      [] v = "object" -> "other"
      [] OTHER -> "error"

\* browser.py:81: `if not cookies_loaded:` guards the whole file branch.
ConsultsFileAlways(loaded) == TRUE
ConsultsFile(loaded) == ~loaded

\* login.py:35-42: the result of check_login_status from the username
\* field lookup.
LoggedInWhateverField(found) == TRUE
LoggedInFromField(found) == ~found

BoolStr(b) == IF b THEN "True" ELSE "False"

SessionInit ==
    /\ spc = "start"
    /\ envValue = "unread"
    /\ cookieFile = "unread"
    /\ cookies_loaded = FALSE
    /\ lc_result = "pending"
    /\ appliedFrom = "none"
    /\ setCookieCalls = 0
    /\ fileChecks = 0
    /\ fileReads = 0
    /\ cls_result = "pending"
    /\ clsError = "none"
    /\ usernameField = "unread"

\* load_cookies, lines 59-78: priority 1, the environment variable.
\* setOk: page.setCookie(*cookies) returns (otherwise it raises and the
\* except clause at 76 logs it).
LoadCookiesEnv ==
    /\ spc = "start"
    /\ \E v \in EnvValues : \E setOk \in BOOLEAN :
          LET tried == EnvProvided(v) /\ JsonKind(v) = "list"
              loaded == tried /\ setOk
          IN  /\ envValue' = v
              /\ setCookieCalls' = setCookieCalls + (IF tried THEN 1 ELSE 0)
              /\ cookies_loaded' = loaded
              /\ appliedFrom' = IF loaded THEN "env" ELSE appliedFrom
              /\ IF ConsultsFile(loaded)
                    THEN /\ spc' = "file"
                         /\ UNCHANGED lc_result
                    ELSE /\ spc' = "lc_returned"
                         /\ lc_result' = BoolStr(loaded)
    /\ UNCHANGED <<cookieFile, fileChecks, fileReads, cls_result, clsError,
                   usernameField>>
    /\ UNCHANGED otherThanSession

\* load_cookies, lines 80-103: priority 2, the cookie file.
LoadCookiesFile ==
    /\ spc = "file"
    /\ \E f \in FileStates : \E setOk \in BOOLEAN :
          LET tried == f /= "missing" /\ JsonKind(f) = "list"
              loaded == cookies_loaded \/ (tried /\ setOk)
          IN  /\ cookieFile' = f
              /\ fileChecks' = fileChecks + 1
              /\ fileReads' = fileReads + (IF f = "missing" THEN 0 ELSE 1)
              /\ setCookieCalls' = setCookieCalls + (IF tried THEN 1 ELSE 0)
              /\ cookies_loaded' = loaded
              /\ appliedFrom' = IF tried /\ setOk THEN "file" ELSE appliedFrom
              /\ lc_result' = IF f = "missing" THEN "False" ELSE BoolStr(loaded)
    /\ spc' = "lc_returned"
    /\ UNCHANGED <<envValue, cls_result, clsError, usernameField>>
    /\ UNCHANGED otherThanSession

\* The caller of load_cookies: with cookies loaded the session is verified
\* (check_login_status), without them the flow goes on to the login.
SessionAfterCookies ==
    /\ spc = "lc_returned"
    /\ spc' = IF lc_result = "True" THEN "cls_goto" ELSE "login"
    /\ UNCHANGED <<envValue, cookieFile, cookies_loaded, lc_result,
                   appliedFrom, setCookieCalls, fileChecks, fileReads,
                   cls_result, clsError, usernameField>>
    /\ UNCHANGED otherThanSession

\* check_login_status, lines 25-30 and 43-47: navigate to the base URL.
CheckStatusGoto ==
    /\ spc = "cls_goto"
    /\ \E o \in {"ok", "raises"} :
          IF o = "raises"
             THEN /\ clsError' = "goto"
                  /\ cls_result' = "False"
                  /\ spc' = "cls_returned"
             ELSE /\ spc' = "cls_query"
                  /\ UNCHANGED <<clsError, cls_result>>
    /\ UNCHANGED <<envValue, cookieFile, cookies_loaded, lc_result,
                   appliedFrom, setCookieCalls, fileChecks, fileReads,
                   usernameField>>
    /\ UNCHANGED otherThanSession

\* check_login_status, lines 34-47: look for the username input field.
CheckStatusQuery ==
    /\ spc = "cls_query"
    /\ \E o \in {"found", "absent", "raises"} :
          /\ usernameField' = o
          /\ clsError' = IF o = "raises" THEN "query" ELSE clsError
          /\ cls_result' = IF o = "raises"
                              THEN "False"
                              ELSE BoolStr(LoggedInFromField(o = "found"))
    /\ spc' = "cls_returned"
    /\ UNCHANGED <<envValue, cookieFile, cookies_loaded, lc_result,
                   appliedFrom, setCookieCalls, fileChecks, fileReads>>
    /\ UNCHANGED otherThanSession

NextSession ==
    \/ LoadCookiesEnv
    \/ LoadCookiesFile
    \/ SessionAfterCookies
    \/ CheckStatusGoto
    \/ CheckStatusQuery

---------------------------------------------------------------------------
(* igscraper/proxy_rotator.py: ProxyRotator (SpecProxy).                   *)

\* Bounds of the model: lines of a proxy file, calls of get_next_proxy.
MaxLines == 3
MaxCalls == 7

\* A line of the file is a sequence of characters; " " and "\n" are
\* whitespace, "a" and "b" stand for the text of a proxy URI.
Whitespace == {" ", "\n"}
LineUniverse ==
    {<<"\n">>, <<" ", "\n">>, <<"a", "\n">>, <<" ", "a", " ", "\n">>,
     <<"b", "\n">>, <<"b">>}

RECURSIVE StripLeft(_)
StripLeft(line) ==
    IF line /= <<>> /\ Head(line) \in Whitespace
    THEN StripLeft(Tail(line)) ELSE line

RECURSIVE StripRight(_)
StripRight(line) ==
    IF line /= <<>> /\ line[Len(line)] \in Whitespace
    THEN StripRight(SubSeq(line, 1, Len(line) - 1)) ELSE line

\* str.strip()
Strip(line) == StripRight(StripLeft(line))

\* Line 37: [line.strip() for line in f if line.strip()]
RECURSIVE ReadProxies(_)
ReadProxies(lines) ==
    IF lines = <<>> THEN <<>>
    ELSE IF Strip(Head(lines)) /= <<>>
         THEN <<Strip(Head(lines))>> \o ReadProxies(Tail(lines))
         ELSE ReadProxies(Tail(lines))

\* The files the constructor can meet.
RECURSIVE FilesUpTo(_)
FilesUpTo(n) ==
    IF n = 0 THEN {<<>>}
    ELSE FilesUpTo(n - 1)
         \cup {Append(f, l) : f \in {g \in FilesUpTo(n - 1) : Len(g) = n - 1},
                              l \in LineUniverse}

\* The constructor's argument:
\*   none        proxy_file is None
\*   empty       proxy_file is ""
\*   missing     the path is not a file
\*   unreadable  open() or the read raises
\*   file        a readable file
ProxySourceKinds == {"none", "empty", "missing", "unreadable", "file"}

\* The value of self.proxy_cycler before cycle() is built (None).
NoCycler == [built |-> FALSE, firstPass |-> FALSE, idx |-> 0, saved |-> <<>>]
\* itertools.cycle(self.proxies): the first pass reads the list and saves
\* every element, the later passes repeat the saved copy.
NewCycler == [built |-> TRUE, firstPass |-> TRUE, idx |-> 0, saved |-> <<>>]

\* What get_next_proxy returns: None or a proxy.
NoProxy == [none |-> TRUE, value |-> <<>>]
Proxy(p) == [none |-> FALSE, value |-> p]

\* next(self.proxy_cycler): the cycler after the call and the element it
\* yields (stop: StopIteration).
CycleNextStuck(c, src) ==
    [cycler |-> c, stop |-> src = <<>>,
     value |-> IF src = <<>> THEN <<>> ELSE src[1]]
CycleNext(c, src) ==
    IF c.firstPass /\ c.idx < Len(src)
    THEN [cycler |-> [c EXCEPT !.idx = c.idx + 1,
                               !.saved = Append(c.saved, src[c.idx + 1])],
          stop |-> FALSE,
          value |-> src[c.idx + 1]]
    ELSE LET saved == c.saved
             i == IF c.firstPass \/ c.idx >= Len(saved) THEN 0 ELSE c.idx
         IN  IF saved = <<>>
             THEN [cycler |-> [c EXCEPT !.firstPass = FALSE], stop |-> TRUE,
                   value |-> <<>>]
             ELSE [cycler |-> [c EXCEPT !.firstPass = FALSE, !.idx = i + 1],
                   stop |-> FALSE,
                   value |-> saved[i + 1]]

ProxyInit ==
    /\ ppc = "new"
    /\ proxy_file = "unset"
    /\ fileLines = <<>>
    /\ proxies = <<>>
    /\ enabled = FALSE
    /\ proxy_cycler = NoCycler
    /\ calls = 0
    /\ last_proxy = NoProxy

\* __init__, lines 14-55.
ProxyRotatorNew ==
    /\ ppc = "new"
    /\ \E kind \in ProxySourceKinds : \E lines \in FilesUpTo(MaxLines) :
          /\ kind /= "file" => lines = <<>>
          /\ proxy_file' = kind
          /\ fileLines' = lines
          /\ LET read == IF kind = "file" THEN ReadProxies(lines) ELSE <<>>
             IN  /\ proxies' = read
                 /\ enabled' = (read /= <<>>)
                 /\ proxy_cycler' = IF read /= <<>> THEN NewCycler ELSE NoCycler
    /\ ppc' = "ready"
    /\ UNCHANGED <<calls, last_proxy>>
    /\ UNCHANGED otherThanProxy

\* get_next_proxy, lines 57-70.
GetNextProxy ==
    /\ ppc = "ready"
    /\ calls < MaxCalls
    /\ calls' = calls + 1
    /\ IF ~enabled \/ ~proxy_cycler.built
          THEN /\ last_proxy' = NoProxy
               /\ UNCHANGED <<enabled, proxy_cycler>>
          ELSE LET n == CycleNext(proxy_cycler, proxies)
               IN  /\ proxy_cycler' = n.cycler
                   /\ last_proxy' = IF n.stop THEN NoProxy ELSE Proxy(n.value)
                   /\ enabled' = IF n.stop THEN FALSE ELSE enabled
    /\ UNCHANGED <<ppc, proxy_file, fileLines, proxies>>
    /\ UNCHANGED otherThanProxy

NextProxy ==
    \/ ProxyRotatorNew
    \/ GetNextProxy

---------------------------------------------------------------------------
(* database.py: DatabaseManager (SpecDb).                                  *)

\* Bounds of the model: records of one batch, calls of the methods.
MaxBatch == 3
MaxDbCalls == 2

\* A reel document: the key of the unique index (database.py:21) and the
\* URL is_reel_processed looks for (database.py:26).
ReelIds == {"r1", "r2", "r3"}
ReelUrls == {"u1", "u2"}
ReelDocs == [reel_id : ReelIds, reel_url : ReelUrls]

RECURSIVE BatchesUpTo(_)
BatchesUpTo(n) ==
    IF n = 0 THEN {<<>>}
    ELSE BatchesUpTo(n - 1)
         \cup {Append(b, d) : b \in {c \in BatchesUpTo(n - 1) : Len(c) = n - 1},
                              d \in ReelDocs}

\* The unique index on reel_id: a document is refused when the collection
\* already holds one with its reel_id.
Conflicts(coll, d) == \E e \in coll : e.reel_id = d.reel_id

\* insert_many(reel_data, ordered=False) on a reachable server: every
\* document is attempted, in order; the refused ones are reported together
\* afterwards (BulkWriteError).
RECURSIVE InsertMany(_, _)
InsertMany(coll, batch) ==
    IF batch = <<>> THEN coll
    ELSE InsertMany(IF Conflicts(coll, Head(batch)) THEN coll
                    ELSE coll \cup {Head(batch)},
                    Tail(batch))

\* The documents of the batch the index refuses.
RECURSIVE Refused(_, _)
Refused(coll, batch) ==
    IF batch = <<>> THEN 0
    ELSE IF Conflicts(coll, Head(batch)) THEN 1 + Refused(coll, Tail(batch))
         ELSE Refused(coll \cup {Head(batch)}, Tail(batch))

\* database.py:30-36: what the caller of bulk_insert_reels gets. The
\* function has no return statement; when insert_many raised, the except
\* clause prints "Error in bulk insert: ..." and the function ends.
\*   "None"          returned None, nothing printed
\*   "None+error"    returned None after printing the error line
BulkReturn(raised) == IF raised THEN "None+error" ELSE "None"

DbInit ==
    /\ reels = {}
    /\ dbCalls = 0
    /\ lastBatch = <<>>
    /\ reelsBefore = {}
    /\ insertRaised = FALSE
    /\ serverState = "up"
    /\ bulkReturn = "notCalled"
    /\ processedAnswer = "notCalled"
    /\ lastScheduled = {}

\* bulk_insert_reels, database.py:28-36.
BulkInsertReels ==
    /\ dbCalls < MaxDbCalls
    /\ dbCalls' = dbCalls + 1
    /\ \E batch \in BatchesUpTo(MaxBatch) : \E server \in {"up", "down"} :
          LET called == batch /= <<>>
              raised == called /\ (server = "down" \/ Refused(reels, batch) > 0)
          IN  /\ lastBatch' = batch
              /\ reelsBefore' = reels
              /\ serverState' = IF called THEN server ELSE "up"
              /\ reels' = IF called /\ server = "up"
                          THEN InsertMany(reels, batch) ELSE reels
              /\ insertRaised' = raised
              /\ bulkReturn' = BulkReturn(raised)
    /\ UNCHANGED <<processedAnswer, lastScheduled>>
    /\ UNCHANGED otherThanDb

\* is_reel_processed, database.py:24-26: bool(find_one({'reel_url': url})).
IsProcessed(coll, url) == \E d \in coll : d.reel_url = url

IsReelProcessed ==
    /\ dbCalls < MaxDbCalls
    /\ dbCalls' = dbCalls + 1
    /\ \E url \in ReelUrls : processedAnswer' = BoolStr(IsProcessed(reels, url))
    /\ UNCHANGED <<reels, lastBatch, reelsBefore, insertRaised, serverState,
                   bulkReturn, lastScheduled>>
    /\ UNCHANGED otherThanDb

\* main.py:763-784 with distributed_scraper.py:72-75: the document
\* scrape_single_reel returns for a URL.  Its keys are content_id, url,
\* content_type, performance_metrics, content_analysis, scraped_at and
\* proxy_used: it has no reel_id and no reel_url, which a query and the
\* unique index read as null.
GetReelInfo(url) == [reel_id |-> None, reel_url |-> None, url |-> url]

\* The URL a stored document was scraped from, None for a document that
\* has no "url" key.
UrlOfDoc(d) == IF "url" \in DOMAIN d THEN d.url ELSE None

\* The lists a set of documents can be gathered into.
RECURSIVE Orderings(_)
Orderings(S) ==
    IF S = {} THEN {<<>>}
    ELSE UNION {{<<x>> \o rest : rest \in Orderings(S \ {x})} : x \in S}

\* distributed_scraper.py:53-62, process_reel_batch: a scrape is scheduled
\* for every URL is_reel_processed denies; the results that are dicts go
\* to bulk_insert_reels.
ProcessReelBatch ==
    /\ dbCalls < MaxDbCalls
    /\ dbCalls' = dbCalls + 1
    /\ \E urls \in SUBSET ReelUrls :
          LET scheduled == {u \in urls : ~IsProcessed(reels, u)}
          IN  \E scraped \in SUBSET scheduled :
              \E batch \in Orderings({GetReelInfo(u) : u \in scraped}) :
              \E server \in {"up", "down"} :
                 LET called == batch /= <<>>
                     raised == called /\ (server = "down"
                                          \/ Refused(reels, batch) > 0)
                 IN  /\ lastScheduled' = scheduled
                     /\ lastBatch' = batch
                     /\ reelsBefore' = reels
                     /\ serverState' = IF called THEN server ELSE "up"
                     /\ reels' = IF called /\ server = "up"
                                 THEN InsertMany(reels, batch) ELSE reels
                     /\ insertRaised' = raised
                     /\ bulkReturn' = BulkReturn(raised)
    /\ UNCHANGED processedAnswer
    /\ UNCHANGED otherThanDb

NextDb ==
    \/ ProcessReelBatch
    \/ BulkInsertReels
    \/ IsReelProcessed

---------------------------------------------------------------------------
(* main.py: scrape_post_urls_from_feed (SpecFeed).                         *)

MAX_POST_URLS_TO_SCRAPE == 50
MAX_SCROLL_ATTEMPTS == 20
FeedStallLimit == 3

\* Bound of the model: the small value of the max_urls argument.
SmallMaxUrls == 1

\* 'https://www.instagram.com', the prefix of the JavaScript fallback
\* (line 889), in the pieces of the URLs above.
SitePrefix == <<"https:", "/", "/", "x">>

\* A link of the page: the resolved URL get_attribute('href') gives and the
\* raw attribute text getAttribute('href') gives in the page (a relative
\* path, or the absolute URL itself).
RelativeAttr(url) == SubSeq(url, Len(SitePrefix) + 1, Len(url))
FeedLinks ==
    {[href |-> u, attr |-> RelativeAttr(u)] : u \in {UrlA, UrlAQuery, UrlB}}
    \cup {[href |-> UrlB, attr |-> UrlB]}

\* Lines 833, 845, 868, 896: clean_url = href.split("?")[0], added to the
\* set when not yet in it.
AddClean(urls, hrefs) == urls \cup {Canonical(h) : h \in hrefs}

\* Lines 821-871: the element lookups; every link of the universe has
\* '/reel/' in its href and is therefore taken by the direct detection.
\* Lines 880-901: when these added nothing, the JavaScript fallback adds
\* the prefixed raw attributes.
CollectUrls(urls, links) ==
    LET direct == AddClean(urls, {l.href : l \in links})
    IN  IF Cardinality(direct) < Cardinality(urls) + 1
        THEN AddClean(direct, {SitePrefix \o l.attr : l \in links})
        ELSE direct

\* Lines 920-953: the counter after a scroll.
\*   stalled: new_height == last_height and not found_new_this_scroll
NextStall(stalled, found_new, n) ==
    IF stalled THEN n + 1 ELSE IF found_new THEN 0 ELSE n

FeedInit ==
    /\ fpc = "start"
    /\ post_urls = {}
    /\ f_last_height = 0
    /\ attempts_without_new_content = 0
    /\ attempt = 0
    /\ f_max_urls = MAX_POST_URLS_TO_SCRAPE
    /\ stalledRun = 0
    /\ stopReason = "none"
    /\ linksSeen = {}

\* Lines 789-814: the call, the navigation, the first height.
FeedStart ==
    /\ fpc = "start"
    /\ \E m \in {SmallMaxUrls, MAX_POST_URLS_TO_SCRAPE} : f_max_urls' = m
    /\ \E h \in Heights : f_last_height' = h
    /\ fpc' = "loop"
    /\ UNCHANGED <<post_urls, attempts_without_new_content, attempt,
                   stalledRun, stopReason, linksSeen>>
    /\ UNCHANGED otherThanFeed

\* Lines 816-955: one pass of the for loop.
FeedScroll ==
    /\ fpc = "loop"
    /\ attempt < MAX_SCROLL_ATTEMPTS
    /\ \E links \in SUBSET FeedLinks : \E new_height \in Heights :
          LET urls == CollectUrls(post_urls, links)
              found_new == Cardinality(urls) > Cardinality(post_urls)
              stalled == new_height = f_last_height /\ ~found_new
              n == NextStall(stalled, found_new, attempts_without_new_content)
          IN  /\ post_urls' = urls
              /\ linksSeen' = linksSeen \cup links
              /\ IF Cardinality(urls) >= f_max_urls
                    THEN /\ fpc' = "returned"
                         /\ stopReason' = "max"
                         /\ UNCHANGED <<attempts_without_new_content,
                                        f_last_height, attempt, stalledRun>>
                    ELSE /\ attempts_without_new_content' = n
                         /\ stalledRun' = IF stalled THEN stalledRun + 1 ELSE 0
                         /\ IF stalled /\ n >= FeedStallLimit
                               THEN /\ fpc' = "returned"
                                    /\ stopReason' = "stall"
                                    /\ UNCHANGED <<f_last_height, attempt>>
                               ELSE /\ f_last_height' = new_height
                                    /\ attempt' = attempt + 1
                                    /\ UNCHANGED <<fpc, stopReason>>
    /\ UNCHANGED f_max_urls
    /\ UNCHANGED otherThanFeed

\* Lines 816, 960-961: range(scroll_attempts) is used up.
FeedExhausted ==
    /\ fpc = "loop"
    /\ attempt = MAX_SCROLL_ATTEMPTS
    /\ fpc' = "returned"
    /\ stopReason' = "exhausted"
    /\ UNCHANGED <<post_urls, f_last_height, attempts_without_new_content,
                   attempt, f_max_urls, stalledRun, linksSeen>>
    /\ UNCHANGED otherThanFeed

\* Lines 794, 811, 854, 907, 917: driver.get, execute_script or the
\* unguarded find_elements raises; the exception leaves the function.
FeedRaises ==
    /\ fpc \in {"start", "loop"}
    /\ fpc = "loop" => attempt < MAX_SCROLL_ATTEMPTS
    /\ fpc' = "raised"
    /\ UNCHANGED <<post_urls, f_last_height, attempts_without_new_content,
                   attempt, f_max_urls, stalledRun, stopReason, linksSeen>>
    /\ UNCHANGED otherThanFeed

NextFeed ==
    \/ FeedStart
    \/ FeedScroll
    \/ FeedExhausted
    \/ FeedRaises

---------------------------------------------------------------------------
(* config.py: check_credentials, and the __main__ block of main.py         *)
(* (SpecStartup).  A process runs one of the two programs.                 *)

\* os.getenv gives None for an unset variable, else its text.
ConfigUsernames == {None, "", "user"}
ConfigPasswords == {None, "", "secret"}

\* The literals of main.py lines 43-44 as the operator of the script sets
\* them; "YOUR_USERNAME" and "YOUR_PASSWORD" are the ones of the file.
MainUsernames == {None, "", "YOUR_TEST_USERNAME", "YOUR_USERNAME"}
MainPasswords == {None, "", "YOUR_TEST_PASSWORD", "YOUR_PASSWORD"}

\* config.py line 43: not (not INSTAGRAM_USERNAME or not INSTAGRAM_PASSWORD).
CredentialsGivenUsernameOnly(u, p) == Truthy(u)
CredentialsGiven(u, p) == Truthy(u) /\ Truthy(p)

\* config.py lines 41-52.
check_credentials(u, p, envFile) ==
    IF ~CredentialsGiven(u, p)
    THEN (IF ~envFile THEN "ValueError: no .env file"
          ELSE "ValueError: not set in .env")
    ELSE "True"

\* main.py lines 1114-1115, negated: the else branch is taken.
GuardPasses(u, p) ==
    ~(\/ ~Truthy(u)
      \/ u = "YOUR_TEST_USERNAME"
      \/ ~Truthy(p)
      \/ p = "YOUR_TEST_PASSWORD")

StartupInit ==
    /\ cpc = "unloaded"
    /\ cfg_username = None
    /\ cfg_password = None
    /\ env_exists = FALSE
    /\ credResult = "notCalled"
    /\ entry = "notRun"
    /\ m_username = "YOUR_USERNAME"
    /\ m_password = "YOUR_PASSWORD"

\* config.py lines 10-34: the module is imported.
ConfigLoad ==
    /\ cpc = "unloaded"
    /\ entry = "notRun"
    /\ \E u \in ConfigUsernames : cfg_username' = u
    /\ \E p \in ConfigPasswords : cfg_password' = p
    /\ \E e \in BOOLEAN : env_exists' = e
    /\ cpc' = "loaded"
    /\ UNCHANGED <<credResult, entry, m_username, m_password>>
    /\ UNCHANGED otherThanStartup

\* config.py lines 41-52: a call of check_credentials.
CheckCredentialsCall ==
    /\ cpc = "loaded"
    /\ credResult' = check_credentials(cfg_username, cfg_password, env_exists)
    /\ cpc' = "checked"
    /\ UNCHANGED <<cfg_username, cfg_password, env_exists, entry, m_username,
                   m_password>>
    /\ UNCHANGED otherThanStartup

\* main.py lines 43-44 and 1113-1118: the script is run.
EntryGuard ==
    /\ entry = "notRun"
    /\ cpc = "unloaded"
    /\ \E u \in MainUsernames : \E p \in MainPasswords :
          /\ m_username' = u
          /\ m_password' = p
          /\ entry' = IF GuardPasses(u, p) THEN "main" ELSE "rejected"
    /\ UNCHANGED <<cpc, cfg_username, cfg_password, env_exists, credResult>>
    /\ UNCHANGED otherThanStartup

\* main.py line 1118: main() runs in the else branch only.
EntryMain ==
    /\ entry = "main"
    /\ NextMain

NextStartup ==
    \/ ConfigLoad
    \/ CheckCredentialsCall
    \/ EntryGuard
    \/ EntryMain

---------------------------------------------------------------------------
(* igscraper/browser.py: try_click_not_now (SpecPopup).                    *)

\* Lines 113-117: the selectors, in pieces ("//" opens an XPath).
not_now_selectors ==
    << <<"//", "button[contains(text(), 'Not Now')]">>,
       <<"//", "div[@role='dialog']", "//", "button[contains(., 'Not Now')]">>,
       <<"button._a9--._a9_1">> >>

\* Line 122: selector.startswith("//")
IsXPath(selector) == selector[1] = "//"

\* Outcome of one pass of the loop body (lines 120-139):
\*   timeout      the wait raises (the popup is not there)
\*   noButton     the wait returns a falsy value
\*   clickRaises  the button is found, button.click() raises
\*   clicked      the button is found and clicked
ClickOutcomes == {"timeout", "noButton", "clickRaises", "clicked"}

\* Line 131: clicked_any after a pass, by whether its click succeeded.
ClickedAnyLastOnly(before, clicked) == clicked
ClickedAny(before, clicked) == before \/ clicked

PopupInit ==
    /\ npc = "start"
    /\ nn_index = 1
    /\ clicked_any = FALSE
    /\ nn_log = <<>>
    /\ nn_result = "pending"

\* Lines 105-119: the call; clicked_any = False, the loop starts.
NotNowCall ==
    /\ npc = "start"
    /\ npc' = "loop"
    /\ clicked_any' = FALSE
    /\ nn_index' = 1
    /\ UNCHANGED <<nn_log, nn_result>>
    /\ UNCHANGED otherThanPopup

\* Lines 119-139: one pass of the for loop; every exception is swallowed.
NotNowTry ==
    /\ npc = "loop"
    /\ nn_index <= Len(not_now_selectors)
    /\ \E o \in ClickOutcomes :
          /\ nn_log' = Append(nn_log,
                 [selector |-> not_now_selectors[nn_index],
                  wait |-> IF IsXPath(not_now_selectors[nn_index])
                           THEN "waitForXPath" ELSE "waitForSelector",
                  outcome |-> o])
          /\ clicked_any' = ClickedAny(clicked_any, o = "clicked")
    /\ nn_index' = nn_index + 1
    /\ UNCHANGED <<npc, nn_result>>
    /\ UNCHANGED otherThanPopup

\* Lines 141-144: the list is exhausted; return clicked_any.
NotNowReturn ==
    /\ npc = "loop"
    /\ nn_index > Len(not_now_selectors)
    /\ npc' = "returned"
    /\ nn_result' = IF clicked_any THEN "True" ELSE "False"
    /\ UNCHANGED <<nn_index, clicked_any, nn_log>>
    /\ UNCHANGED otherThanPopup

NextPopup ==
    \/ NotNowCall
    \/ NotNowTry
    \/ NotNowReturn

---------------------------------------------------------------------------
(* proxy_rotation.py: the legacy ProxyRotator (SpecLegacyProxy).           *)

\* Bounds of the model: the length of a provider's list, the calls made.
MaxProviderList == 3
MaxLegacyCalls == 4

LegacyProxies == {"p1", "p2"}

RECURSIVE ListsUpTo(_)
ListsUpTo(n) ==
    IF n = 0 THEN {<<>>}
    ELSE ListsUpTo(n - 1)
         \cup {Append(l, x) : l \in {m \in ListsUpTo(n - 1) : Len(m) = n - 1},
                              x \in LegacyProxies}

\* What requests.get gives refresh_proxies (lines 21-28): "failed" for an
\* exception or a status other than 200, else the list of response.json().
ProviderAnswers ==
    {[ok |-> FALSE, list |-> <<>>]}
    \cup {[ok |-> TRUE, list |-> l] : l \in ListsUpTo(MaxProviderList)}

\* Lines 24-26: self.proxies after refresh_proxies.
Refreshed(list, answer) == IF answer.ok THEN answer.list ELSE list

\* Lines 43-44: list.remove(proxy) takes out the first equal element.
RemoveFirst(list, x) ==
    IF \E i \in 1..Len(list) : list[i] = x
    THEN LET k == CHOOSE i \in 1..Len(list) :
                     list[i] = x /\ \A j \in 1..(i - 1) : list[j] /= x
         IN  SubSeq(list, 1, k - 1) \o SubSeq(list, k + 1, Len(list))
    ELSE list

\* Lines 13-17: the constructor.
LegacyInit ==
    /\ lp_proxies = <<>>
    /\ current_index = 0
    /\ lp_refreshed = FALSE
    /\ lp_calls = 0
    /\ lp_last = "notCalled"
    /\ lp_lenAtReturn = 0

\* Lines 19-28: refresh_proxies called by the user of the class.
LegacyRefresh ==
    /\ lp_calls < MaxLegacyCalls
    /\ lp_calls' = lp_calls + 1
    /\ \E answer \in ProviderAnswers :
          /\ lp_proxies' = Refreshed(lp_proxies, answer)
          /\ lp_refreshed' = (lp_refreshed \/ answer.ok)
    /\ UNCHANGED <<current_index, lp_last, lp_lenAtReturn>>
    /\ UNCHANGED otherThanLegacy

\* Lines 30-40: get_next_proxy.  The list is refreshed first when it is
\* empty or an hour has passed since the last refresh (last_refresh is 0
\* until a refresh succeeds); an index beyond the list raises IndexError,
\* which leaves the cursor as it was.
LegacyGetNextProxy ==
    /\ lp_calls < MaxLegacyCalls
    /\ lp_calls' = lp_calls + 1
    /\ \E expired \in BOOLEAN, answer \in ProviderAnswers :
          /\ ~lp_refreshed => expired
          /\ LET refresh == lp_proxies = <<>> \/ expired
                 list == IF refresh THEN Refreshed(lp_proxies, answer)
                         ELSE lp_proxies
             IN  /\ lp_proxies' = list
                 /\ lp_refreshed' = (lp_refreshed \/ (refresh /\ answer.ok))
                 /\ lp_lenAtReturn' = Len(list)
                 /\ IF list = <<>>
                    THEN /\ lp_last' = "None"
                         /\ UNCHANGED current_index
                    ELSE IF current_index >= Len(list)
                    THEN /\ lp_last' = "IndexError"
                         /\ UNCHANGED current_index
                    ELSE /\ lp_last' = list[current_index + 1]
                         /\ current_index' = (current_index + 1) % Len(list)
    /\ UNCHANGED otherThanLegacy

\* Lines 42-45: mark_proxy_failed.
LegacyMarkFailed ==
    /\ lp_calls < MaxLegacyCalls
    /\ lp_calls' = lp_calls + 1
    /\ \E proxy \in LegacyProxies : lp_proxies' = RemoveFirst(lp_proxies, proxy)
    /\ UNCHANGED <<current_index, lp_refreshed, lp_last, lp_lenAtReturn>>
    /\ UNCHANGED otherThanLegacy

NextLegacyProxy ==
    \/ LegacyRefresh
    \/ LegacyGetNextProxy
    \/ LegacyMarkFailed

---------------------------------------------------------------------------
vars == <<reelsVars, detailVars, loginVars, mainVars, sessionVars, proxyVars,
          dbVars, feedVars, startupVars, popupVars,
          legacyVars>>

Init ==
    /\ ReelsInit /\ DetailsInit /\ LoginInit /\ MainInit /\ SessionInit
    /\ ProxyInit
    /\ DbInit
    /\ FeedInit
    /\ StartupInit
    /\ PopupInit
    /\ LegacyInit

SpecReels == Init /\ [][NextReels]_vars
SpecDetails == Init /\ [][NextDetails]_vars
SpecLogin == Init /\ [][NextLogin]_vars
SpecMain == Init /\ [][NextMain]_vars
SpecSession == Init /\ [][NextSession]_vars
SpecProxy == Init /\ [][NextProxy]_vars
SpecDb == Init /\ [][NextDb]_vars
SpecFeed == Init /\ [][NextFeed]_vars
SpecStartup == Init /\ [][NextStartup]_vars
SpecPopup == Init /\ [][NextPopup]_vars
SpecLegacyProxy == Init /\ [][NextLegacyProxy]_vars


---------------------------------------------------------------------------
(* Claims about scrape_reels (SpecReels).                                  *)

AllEqual(rs) == \A i \in 1..Len(rs) : \A j \in 1..Len(rs) : rs[i] = rs[j]

\* C1: the scroll loop ends as soon as three consecutive scrolls have left
\* the scroll height unchanged; a scroll that changes the height resets the
\* stall counter to 0, so short of the attempt cap the loop never ends with
\* fewer than three consecutive no-growth scrolls; on the scripted readings
\* 100,150,150,150,150 the loop runs until, and ends right after, the third
\* repeated reading (the fourth scroll).
C1_StallTermination ==
    /\ (rpc = "scrolled" /\ scroll_count < max_scroll_attempts)
          => (Len(readings) = 4 /\ AllEqual(readings))
    /\ (rpc = "loop" /\ Len(readings) = 4 /\ AllEqual(readings))
          => ~LoopCondition
    /\ (Len(readings) >= 2
          /\ readings[Len(readings)] /= readings[Len(readings) - 1])
          => attempts = 0
    /\ (rpc = "loop" /\ scriptPos \in 1..4) => LoopCondition
    /\ (rpc \in {"loop", "scrolled"} /\ scriptPos = 5)
          => (~LoopCondition /\ scroll_count = 4 /\ attempts = 3)

\* C1 witness: the loop has ended on the scripted readings.
C1_Witness == rpc = "scrolled" /\ scriptPos = 5

\* C2: whatever the readings, the loop makes at most max_scroll_attempts
\* scrolls; the stall counter stays within 0..3, the scroll count within
\* 0..25, and the stall counter never exceeds the scroll count.
C2_Bounded ==
    /\ attempts \in 0..3
    /\ scroll_count \in 0..25
    /\ attempts <= scroll_count
    /\ rpc = "scrolled" => (attempts = 3 \/ scroll_count = 25)

\* C2 witness: the loop ended at the cap although the height changed on
\* every scroll.
C2_Witness ==
    rpc = "scrolled" /\ scroll_count = 25 /\ attempts = 0 /\ ~everStalled

\* C3 (as claimed): the URL collection of one discovery pass holds no two
\* entries with the same canonical form (query string stripped); A/, A/?hl=en
\* and B/ give exactly two entries.
C3_NoCanonicalDuplicates ==
    rpc = "scrolled" =>
        /\ \A u \in reel_urls : \A v \in reel_urls :
              Canonical(u) = Canonical(v) => u = v
        /\ reel_urls = {UrlA, UrlAQuery, UrlB} => Cardinality(reel_urls) = 2

---------------------------------------------------------------------------
(* Claims about scrape_reel_details (SpecDetails).                         *)

\* Method 2 has run (the function did not leave through the outer except).
AfterMethod2 == dpc = "validate" \/ (dpc = "returned" /\ screenshots = 0)

\* C4 (as claimed): a record is returned exactly when the shortcode is
\* present and caption or date is non-null after both strategies.
C4_ValidIffNonNull ==
    dpc = "returned" =>
        (d_result = "record" <=>
            (details.shortcode /= <<>>
             /\ (details.caption /= None \/ details.date /= None)))

\* C4 (amended): a record is returned exactly when the shortcode is
\* non-empty and caption or date is truthy (neither null nor the empty
\* string) after both strategies; otherwise nothing is returned.  No
\* shortcode: rejected whatever the other fields; both fields null: rejected.
C4_ValidIffTruthy ==
    dpc = "returned" =>
        /\ d_result \in {"record", "None"}
        /\ d_result = "record" <=>
              (details.shortcode /= <<>>
               /\ ((details.caption /= None /\ details.caption /= "")
                   \/ (details.date /= None /\ details.date /= "")))

\* C4 witness: a candidate with a caption but no shortcode was rejected.
C4_Witness ==
    /\ dpc = "returned"
    /\ d_result = "None"
    /\ details.shortcode = <<>>
    /\ details.caption = "cap"

\* C5: if the JSON-LD strategy yields a caption, the DOM caption fallback
\* is never run and the caption is kept; if it yields none, the DOM caption
\* fallback is attempted exactly once.
C5_FallbackPrecedence ==
    /\ dpc \in {"start", "goto", "json", "html", "major"}
          => (h1Queries = 0 /\ spanQueries = 0)
    /\ AfterMethod2 =>
          IF jsonCaption /= None /\ jsonCaption /= ""
          THEN /\ h1Queries = 0
               /\ spanQueries = 0
               /\ details.caption = jsonCaption
          ELSE /\ h1Queries = 1
               /\ spanQueries <= 1

\* C5 witness: JSON-LD gave a caption but no date; the fallback ran for the
\* date only.
C5_Witness ==
    /\ AfterMethod2
    /\ jsonCaption = "desc"
    /\ jsonDate = None
    /\ timeQueries = 1
    /\ h1Queries = 0

---------------------------------------------------------------------------
(* Claims about igscraper/login.py (SpecLogin).                            *)

\* C6: login_instagram returns True exactly when no inline error element
\* was found, handle_2fa returned True, and the URL read afterwards contains
\* 'instagram.com' and neither 'login' nor 'challenge'; whether the
\* Home/Inbox element is found does not change the result.
C6_LoginResult ==
    lpc = "returned" =>
        /\ login_result \in {"True", "False"}
        /\ login_result = "True" <=>
              /\ ~errorFound
              /\ twofa_result = "True"
              /\ urlChecks = 1
              /\ Contains(current_url, "instagram.com")
              /\ ~Contains(current_url, "login")
              /\ ~Contains(current_url, "challenge")
        /\ homeWait /= "notTried" => login_result = "True"

\* C6 witness: True was returned although the Home/Inbox element timed out.
C6_Witness ==
    lpc = "returned" /\ login_result = "True" /\ homeWait = "timeout"

\* C7: when a 2FA prompt is detected but cannot be satisfied (no code, no
\* code field, no confirmation control), handle_2fa returns False without
\* raising and login_instagram returns False without a URL check and
\* without saving cookies.
C7_Unsatisfied2fa ==
    (is_2fa_screen /\ twofaFail /= "none") =>
        /\ twofa_result = "False"
        /\ lpc \in {"tf_returned", "returned"}
        /\ lpc = "returned" => login_result = "False"
        /\ urlChecks = 0
        /\ saveCookiesCalls = 0
        /\ homeWait = "notTried"

\* C7 witness: login_instagram returned after the code field was not found
\* (and likewise for the other two reasons).
C7_Witness ==
    /\ lpc = "returned"
    /\ is_2fa_screen
    /\ twofaFail = "noInput"
    /\ login_result = "False"

---------------------------------------------------------------------------
(* Claims about main.py (SpecMain).                                        *)

\* An account of the current pass has been analysed.
ScrapedThisPass ==
    phase = "loop" /\ (mpc = "ask" \/ (mpc = "bulk" /\ acct > 0))

\* C8 (as claimed): scraping of any account starts only after the session
\* was established as authenticated; a run whose login is rejected, whose
\* 2FA cannot be satisfied, or in which no logged-in indicator is ever
\* observed ends without scraping any account.
C8_ScrapeOnlyAuthenticated ==
    ScrapedThisPass =>
        /\ authObserved
        /\ m_login /= "False"
        /\ m_twofa /= "False"

---------------------------------------------------------------------------
(* More claims about igscraper/login.py (SpecLogin).                       *)

\* C9: where login_instagram returns True, save_cookies has been called
\* exactly once; where it returns False, never; a failure to write the
\* cookie file leaves the result True.
C9_CookiesSavedOnSuccess ==
    /\ saveCookiesCalls <= 1
    /\ lpc /= "returned" => saveCookiesCalls = 0
    /\ lpc = "returned" =>
          /\ login_result = "True" => saveCookiesCalls = 1
          /\ login_result = "False" => saveCookiesCalls = 0
          /\ cookieWriteFailed => login_result = "True"

\* C9 witness: the login returned True although writing the cookies failed.
C9_Witness ==
    /\ lpc = "returned"
    /\ login_result = "True"
    /\ cookieWriteFailed
    /\ saveCookiesCalls = 1

\* C10: an inline login-error element after the submission makes
\* login_instagram return False at once: handle_2fa is never entered, no
\* code is requested and no URL check is made.
C10_ErrorFailsFast ==
    errorFound =>
        /\ lpc = "returned"
        /\ login_result = "False"
        /\ handle2faCalls = 0
        /\ codeRequests = 0
        /\ urlChecks = 0
        /\ saveCookiesCalls = 0

\* C10 witness: the error element was found and its text read.
C10_Witness ==
    /\ errorFound
    /\ lpc = "returned"
    /\ formSubmits = 1
    /\ loginScreenshots = 0

---------------------------------------------------------------------------
(* Claims about the session bootstrap (SpecSession).                       *)

\* C12: check_login_status returns False whenever the page at the base URL
\* holds a username input field, True whenever it does not, and False
\* whenever the navigation or the query raises; it always returns a boolean
\* (it never raises).
C12_CheckLoginStatus ==
    spc = "cls_returned"
        => /\ cls_result \in {"True", "False"}
           /\ (clsError /= "none") => (cls_result = "False")
           /\ (clsError = "none" /\ usernameField = "found")
                  => (cls_result = "False")
           /\ (clsError = "none" /\ usernameField = "absent")
                  => (cls_result = "True")

C12_Witness ==
    /\ spc = "cls_returned"
    /\ clsError = "none"
    /\ usernameField = "absent"
    /\ cls_result = "True"

\* C13: in load_cookies, when the environment value parses to a JSON list
\* and setCookie accepts it, the cookie file is never looked at and
\* setCookie has been called exactly once; the file is consulted only when
\* the environment value is absent (or empty), unparsable, not a list, or
\* was not applied; and the function returns True exactly when the cookies
\* of one of the two sources were applied successfully.
C13_CookiePriority ==
    LET returned == spc \notin {"start", "file"}
        envApplied == /\ EnvProvided(envValue)
                      /\ JsonKind(envValue) = "list"
                      /\ appliedFrom = "env"
    IN  /\ (returned /\ envApplied)
               => (fileChecks = 0 /\ fileReads = 0 /\ cookieFile = "unread"
                   /\ setCookieCalls = 1)
        /\ (fileChecks > 0 \/ fileReads > 0)
               => \/ ~EnvProvided(envValue)
                  \/ JsonKind(envValue) \in {"error", "other"}
                  \/ (JsonKind(envValue) = "list" /\ appliedFrom /= "env")
        /\ returned => (lc_result = "True" <=> appliedFrom \in {"env", "file"})

C13_Witness ==
    /\ spc = "lc_returned"
    /\ envValue = "list"
    /\ appliedFrom = "env"
    /\ lc_result = "True"
    /\ setCookieCalls = 1

---------------------------------------------------------------------------
(* Claims about the details phase and the error path of scrape_reels       *)
(* (SpecReels).                                                            *)

Range(sq) == {sq[i] : i \in 1..Len(sq)}

\* C14: in scrape_reels a reel whose extraction fails is dropped alone:
\* every discovered URL is handed to scrape_reel_details exactly once
\* whatever happened to the URLs before it, and the returned list holds
\* exactly the records of the URLs whose extraction gave a record.
C14_FailureDiscardsOneReel ==
    /\ rpc \in {"scrolled", "returned"}
          => /\ Range(processed) \cup todo = reel_urls
             /\ Range(processed) \cap todo = {}
             /\ Len(processed) = Cardinality(Range(processed))
             /\ Range(reels_data) = Range(processed) \ failedUrls
             /\ Len(reels_data) = Cardinality(Range(reels_data))
    /\ rpc = "returned"
          => /\ reels_result = "list"
             /\ Range(processed) = reel_urls
             /\ Range(reels_data) = reel_urls \ failedUrls

C14_Witness ==
    /\ rpc = "returned"
    /\ Len(processed) >= 3
    /\ processed[1] \in failedUrls
    /\ processed[2] \notin failedUrls
    /\ processed[3] \in failedUrls
    /\ Len(reels_data) >= 1

\* C17: scrape_reels propagates no error: when the navigation or a page
\* evaluation raises it returns the empty list, and it does so as well when
\* the page text read for the diagnosis fails.
C17_ReelsNeverRaises ==
    /\ reels_result \in {"pending", "list", "empty"}
    /\ rpc = "failed"
          => /\ reels_result = "empty"
             /\ contentRead \in {"ok", "raised"}

C17_Witness ==
    /\ rpc = "failed"
    /\ contentRead = "raised"
    /\ reels_result = "empty"
    /\ reel_urls /= {}

---------------------------------------------------------------------------
(* Claims about the error handling of scrape_reel_details (SpecDetails).   *)

\* An extraction step raised: the JSON-LD lookup of Method 1 or an element
\* lookup of Method 2.
ExtractionStepRaised == jsonld.kind = "raises" \/ htmlError

\* C15 (as stated): whenever the navigation or any extraction step raises,
\* the function takes one diagnostic screenshot and returns nothing.
C15_AnyErrorScreenshots ==
    (dpc = "returned" /\ (majorError \/ ExtractionStepRaised))
        => (screenshots = 1 /\ d_result = "None")

\* C15 (amended): an error that reaches the outer handler (the navigation
\* raising) leads to exactly one screenshot attempt and to the result None,
\* also when the screenshot itself fails; an error of an extraction step is
\* absorbed by the handler of its own strategy: no screenshot is taken and
\* the result is decided by the final validation; the function always
\* returns a record or None, no error leaves it.
C15_MajorErrorOnly ==
    dpc = "returned"
        => /\ d_result \in {"record", "None"}
           /\ majorError => (screenshots = 1 /\ d_result = "None")
           /\ ~majorError
                 => /\ screenshots = 0
                    /\ ~reelScreenshotFailed
                    /\ d_result = "record" <=> IsValid(details)

C15_Witness ==
    /\ dpc = "returned"
    /\ majorError
    /\ reelScreenshotFailed
    /\ screenshots = 1
    /\ d_result = "None"

\* The payload of the primary strategy is one the claim C16 is about: it
\* does not parse, is empty, is not an object, or declares another type.
UnusablePayload ==
    \/ jsonld.kind \in {"parseError", "emptyList", "scalar"}
    \/ (jsonld.kind \in {"list", "dict"} /\ ~TypeMatches(jsonld.obj.type))

\* C16: a JSON-LD payload that does not parse, is empty or not an object,
\* or whose type is neither VideoObject nor Clip is not fatal: Method 1
\* leaves caption and date unset, the HTML fallback is still attempted
\* (the h1 lookup is made), no screenshot is taken, and the result is
\* whatever the final validation decides.
C16_BadPayloadNonFatal ==
    (dpc \in {"html", "validate", "returned"} /\ UnusablePayload)
        => /\ jsonCaption = None
           /\ jsonDate = None
           /\ ~extracted_from_json
           /\ ~majorError /\ screenshots = 0
           /\ dpc \in {"validate", "returned"} => h1Queries = 1
           /\ dpc = "returned" => (d_result = "record" <=> IsValid(details))

C16_Witness ==
    /\ dpc = "returned"
    /\ jsonld.kind = "parseError"
    /\ h1Queries = 1
    /\ details.caption = "h1 text"
    /\ d_result = "record"

---------------------------------------------------------------------------
(* Claims about the driver and the bulk pass of main() (SpecMain).         *)

\* C18: when main() has returned, every WebDriver setup_driver returned has
\* been quit exactly once.
C18_EveryDriverQuitOnce ==
    m_done => driversQuit = driversCreated

\* C19: in bulk mode the accounts of the list are analysed exactly once
\* each, in list order, whatever happened to the accounts before; an
\* account whose analysis raises adds nothing, and the results of all the
\* others are collected and, once the list is done, go into the report.
C19_BulkAllAccounts ==
    LET withResults == {i \in 1..Len(outcomes) : outcomes[i] = "results"}
    IN  /\ Len(analysed) = acct
        /\ Len(outcomes) = acct
        /\ \A i \in 1..Len(analysed) : analysed[i] = i
        /\ acct <= usernames
        /\ all_results = withResults
        /\ mpc = "export" => acct = usernames
        /\ exported /= <<>> => (acct = usernames /\ exported = <<withResults>>)
        /\ (mpc = "ask" /\ mode = "bulk" /\ withResults /= {})
              => exported = <<withResults>>

C19_Witness ==
    /\ mpc = "ask"
    /\ mode = "bulk"
    /\ usernames = 2
    /\ outcomes = <<"raises", "results">>
    /\ exported = <<{2}>>

---------------------------------------------------------------------------
(* Claims about ProxyRotator (SpecProxy).                                  *)

\* The non-blank lines of the file, stripped, in file order.
FileOrder ==
    LET keep(l) == \E i \in 1..Len(l) : l[i] \notin Whitespace
        kept == SelectSeq(fileLines, keep)
    IN  [i \in 1..Len(kept) |-> Strip(kept[i])]

\* C20: a rotator loaded with n >= 1 proxies is enabled and its k-th call
\* of get_next_proxy returns the proxy at position (k-1) mod n of the file
\* order, for every k, while the proxy list stays what the constructor
\* read; a rotator built from an absent, missing, unreadable or empty
\* source returns None on every call.
C20_RoundRobin ==
    ppc = "ready"
        => LET n == Len(FileOrder)
           IN  /\ proxies = FileOrder
               /\ (proxy_file = "file" /\ n >= 1)
                     => /\ enabled
                        /\ calls >= 1
                              => last_proxy = Proxy(FileOrder[((calls - 1) % n) + 1])
               /\ (proxy_file /= "file" \/ n = 0)
                     => /\ ~enabled
                        /\ last_proxy = NoProxy

C20_Witness ==
    /\ ppc = "ready"
    /\ Len(proxies) = 2
    /\ proxies[1] /= proxies[2]
    /\ Len(fileLines) = 3
    /\ calls = 5
    /\ last_proxy = Proxy(proxies[1])

---------------------------------------------------------------------------
(* Claims about DatabaseManager (SpecDb).                                  *)

\* The last call of bulk_insert_reels met the unique index: some documents
\* of the batch were refused, the others were stored.
PartialInsert ==
    /\ bulkReturn /= "notCalled"
    /\ serverState = "up"
    /\ Refused(reelsBefore, lastBatch) > 0
    /\ Refused(reelsBefore, lastBatch) < Len(lastBatch)

\* C21: when some records of a batch conflict on the unique key,
\* bulk_insert_reels stores every other record of the batch, does not
\* raise, and reports the insertion as partially successful.
C21_PartialInsertReported ==
    PartialInsert
        => /\ \A i \in 1..Len(lastBatch) :
                 \E d \in reels : d.reel_id = lastBatch[i].reel_id
           /\ Cardinality(reels) = Cardinality(reelsBefore) + Len(lastBatch)
                                      - Refused(reelsBefore, lastBatch)
           /\ bulkReturn \in {"None", "None+error", "partial"}
           /\ bulkReturn = "partial"

\* C22: a failure while closing the browser (or while saving a diagnostic
\* screenshot) is only logged: when main() has ended, no exception has left
\* it, whether or not a driver.quit() raised.
C22_CleanupFailureOnlyLogged ==
    (m_done /\ quitFailed) => ~m_escaped

---------------------------------------------------------------------------
(* Claims about the records of scrape_reels and scrape_reel_details.       *)

\* C23: in the list scrape_reels returns for one account no two records
\* have the same shortcode (the shortcode of a record is the one line 27
\* derives from the URL the record was scraped from).
C23_UniqueShortcodes ==
    rpc = "returned"
        => \A i \in 1..Len(reels_data) : \A j \in 1..Len(reels_data) :
              ShortcodeOf(reels_data[i]) = ShortcodeOf(reels_data[j])
                  => i = j

\* C24: every record scrape_reel_details returns has an extractionSource
\* field naming the strategy that gave its caption/date and a scrapedAt
\* timestamp.
C24_SourceAndTimestamp ==
    (dpc = "returned" /\ d_result = "record")
        => {"extractionSource", "scrapedAt"} \subseteq DOMAIN details

---------------------------------------------------------------------------
(* Claims about scrape_post_urls_from_feed (SpecFeed).                     *)

\* The URL without its query string and the query string itself.
HasQuery(url) == \E i \in 1..Len(url) : url[i] = "?"
Path(url) == IF HasQuery(url) THEN SubSeq(url, 1, FirstIndex(url, "?") - 1)
             ELSE url

\* C25: the canonicalization of scrape_post_urls_from_feed (the cut at the
\* first '?') is idempotent, gives the same result for the links of the
\* snapshots that differ only in their query string, and every URL the
\* function has collected is canonical: it has no query string.
C25_Canonicalization ==
    /\ \A l \in linksSeen :
          /\ Canonical(Canonical(l.href)) = Canonical(l.href)
          /\ Canonical(l.href) \in post_urls
          /\ \A k \in linksSeen :
                Path(l.href) = Path(k.href)
                    => Canonical(l.href) = Canonical(k.href)
    /\ \A u \in post_urls : ~HasQuery(u) /\ Canonical(u) = u

C25_Witness ==
    /\ fpc = "returned"
    /\ {l.href : l \in linksSeen} = {UrlA, UrlAQuery}
    /\ post_urls = {UrlA}

\* C27: the stall counter of scrape_post_urls_from_feed counts the
\* consecutive stalled scrolls (it is 0 after any scroll that is not
\* stalled), so the loop stops on stall only after three consecutive
\* stalled scrolls.
C27_ConsecutiveStalls ==
    /\ attempts_without_new_content = stalledRun
    /\ stopReason = "stall" => stalledRun >= FeedStallLimit

---------------------------------------------------------------------------
(* Claims about the credentials (SpecStartup).                             *)

Missing(x) == x = None \/ x = ""

\* C26: with the username or the password missing or empty,
\* check_credentials raises a configuration error, and it returns True
\* otherwise; with the username or the password of main.py missing or
\* empty, the script launches no browser and navigates no page.
C26_MissingCredentialsFatal ==
    /\ cpc = "checked" =>
          IF Missing(cfg_username) \/ Missing(cfg_password)
          THEN credResult \in {"ValueError: no .env file",
                               "ValueError: not set in .env"}
          ELSE credResult = "True"
    /\ (entry /= "notRun" /\ (Missing(m_username) \/ Missing(m_password))) =>
          /\ entry = "rejected"
          /\ driver = "None"
          /\ driversCreated = 0
          /\ mpc = "top"
          /\ ~authObserved

C26_Witness ==
    /\ cpc = "checked"
    /\ ~Missing(cfg_username)
    /\ cfg_password = ""
    /\ credResult = "ValueError: not set in .env"

---------------------------------------------------------------------------
(* Claims about the two strategies of scrape_reel_details (SpecDetails).   *)

\* C28: each of caption and date that is still missing after the primary
\* strategy has its own DOM fallback attempted, whatever happened in the
\* other field's fallback: a missing caption has the h1 looked up and a
\* missing date has the time element looked up, also when the lookup of
\* the caption elements raised.
C28_IndependentFallbacks ==
    AfterMethod2 =>
        /\ (jsonCaption = None \/ jsonCaption = "") => h1Queries = 1
        /\ (jsonDate = None \/ jsonDate = "") => timeQueries = 1

\* C29: in the DOM caption fallback the span selector is queried exactly
\* when the h1 attempt was made and has not produced a caption.
C29_SpanIffH1Failed ==
    AfterMethod2 =>
        (spanQueries = 1 <=> (h1Queries = 1 /\ details.caption /= "h1 text"))

\* The value the claim C30 names: the first one present (not null).
FirstPresent(a, b, c) == IF a /= None THEN a ELSE IF b /= None THEN b ELSE c
\* The value of Python's a or b or c: the first one that is neither null
\* nor empty, else the last.
FirstNonEmpty(a, b, c) ==
    IF a /= None /\ a /= "" THEN a
    ELSE IF b /= None /\ b /= "" THEN b ELSE c

\* The primary strategy has read a JSON-LD object (a list gave its first
\* element).
ReadObject == dpc \in {"html", "validate", "returned"}
              /\ jsonld.kind \in {"list", "dict"}

---------------------------------------------------------------------------
(* Claims about the order of the steps of login_instagram (SpecLogin).     *)

\* C31: a timeout or failure of the navigation wait after the 2FA handling
\* does not by itself fail login_instagram: the flow goes on to the URL
\* check, and the result is the one the final URL alone decides (True for a
\* URL on instagram.com that is neither a login nor a challenge page).
C31_NavTimeoutTolerated ==
    navTimedOut =>
        /\ lpc \in {"urlCheck", "home", "returned"}
        /\ lpc = "urlCheck" => login_result = "pending"
        /\ lpc \in {"home", "returned"} => urlChecks = 1
        /\ lpc = "returned" =>
              login_result =
                 (IF /\ \E i \in 1..Len(current_url) :
                           current_url[i] = "instagram.com"
                     /\ \A i \in 1..Len(current_url) :
                           current_url[i] \notin {"login", "challenge"}
                  THEN "True" ELSE "False")

C31_Witness ==
    /\ navTimedOut
    /\ lpc = "returned"
    /\ current_url = UrlHome
    /\ login_result = "True"

\* The steps of one login in the order the claim C32 gives.
StepOrder == <<"username", "password", "submit", "errorCheck", "2fa",
               "urlCheck">>

\* C32: one call of login_instagram retries nothing: the login form is
\* submitted at most once, the operator is asked for a verification code at
\* most once and only after a 2FA prompt was detected, and the steps taken
\* are, in this order, username, password, submit, error check, 2FA
\* handling, URL check (each at most once, none before its predecessor).
C32_NoRetry ==
    /\ formSubmits <= 1
    /\ codeRequests <= 1
    /\ codeRequests = 1 => (handle2faCalls = 1 /\ detectedBy /= "none")
    /\ Len(loginSteps) <= Len(StepOrder)
    /\ \A i \in 1..Len(loginSteps) : loginSteps[i] = StepOrder[i]

C32_Witness ==
    /\ lpc = "returned"
    /\ loginSteps = StepOrder
    /\ codeRequests = 1
    /\ formSubmits = 1
    /\ login_result = "True"

---------------------------------------------------------------------------
(* Claims about the use of the page by scrape_reels (SpecReels).           *)

\* The scrolling phase of scrape_reels is over.
ScrollingDone == rpc \in {"scrolled", "returned"}

\* C33: scrape_reels uses the page strictly sequentially.  No reel page is
\* navigated to while the listing page is still scrolled; once the first
\* reel page is due, the listing is not scrolled or read again; every
\* collected URL is navigated to exactly once (never twice, and all of them
\* when the list is returned); and one step is one page operation: a step
\* never both scrolls and navigates, and it navigates to one URL at most.
C33_SequentialPage ==
    /\ [](/\ ~ScrollingDone => (processed = <<>> /\ todo = {})
          /\ \A i, j \in 1..Len(processed) :
                processed[i] = processed[j] => i = j
          /\ ScrollingDone =>
                /\ Range(processed) \cup todo = reel_urls
                /\ Range(processed) \cap todo = {}
          /\ reels_result = "list" => Range(processed) = reel_urls)
    /\ [][/\ ScrollingDone =>
               (reel_urls' = reel_urls /\ scroll_count' = scroll_count
                /\ ScrollingDone')
          /\ Len(processed') <= Len(processed) + 1
          /\ scroll_count' /= scroll_count => processed' = processed]_vars

C33_Witness ==
    /\ reels_result = "list"
    /\ Len(processed) = 3
    /\ scroll_count > 1

\* C34: the URL set of the scroll loop of scrape_reels is the union of all
\* link snapshots taken so far, hence at the end of the loop the union of
\* all of them; it only grows from one step to the next, so a URL once
\* collected stays in the set when later snapshots no longer hold it.
C34_UnionOfSnapshots ==
    /\ [](reel_urls = seenOnPage)
    /\ [][reel_urls \subseteq reel_urls']_vars

\* C34 witness: at the end of the loop the set holds a URL of an earlier
\* snapshot although the loop went on with other snapshots.
C34_Witness ==
    /\ rpc = "scrolled"
    /\ scroll_count >= 3
    /\ reel_urls = {UrlA, UrlB}
    /\ todo = reel_urls

---------------------------------------------------------------------------
(* Claims about try_click_not_now (SpecPopup).                             *)

\* C35: one call of try_click_not_now waits for each known 'Not Now'
\* selector exactly once, in the order of the list, also after a click that
\* succeeded; a selector that is not found or a click that fails raises
\* nothing; and the call returns True exactly when some click succeeded.
C35_EverySelectorOnce ==
    /\ Len(nn_log) <= Len(not_now_selectors)
    /\ \A i \in 1..Len(nn_log) : nn_log[i].selector = not_now_selectors[i]
    /\ nn_result /= "raised"
    /\ npc = "returned" =>
          /\ Len(nn_log) = Len(not_now_selectors)
          /\ nn_result = "True" <=>
                \E i \in 1..Len(nn_log) : nn_log[i].outcome = "clicked"
          /\ nn_result \in {"True", "False"}

\* C35 witness: the first click succeeded, the two other selectors were
\* still tried (one not found, one with a failing click); True is returned.
C35_Witness ==
    /\ npc = "returned"
    /\ nn_log[1].outcome = "clicked"
    /\ nn_log[2].outcome = "timeout"
    /\ nn_log[3].outcome = "clickRaises"
    /\ nn_result = "True"

---------------------------------------------------------------------------
(* Claims about the legacy ProxyRotator (SpecLegacyProxy).                 *)

\* C36: after any interleaving of get_next_proxy, mark_proxy_failed and
\* refresh_proxies the cursor is a valid index of a non-empty proxy list,
\* so get_next_proxy never fails with an index out of range, and it returns
\* None only when the list is empty.
C36_CursorValid ==
    /\ lp_proxies /= <<>> => current_index < Len(lp_proxies)
    /\ lp_last /= "IndexError"
    /\ lp_last = "None" => lp_lenAtReturn = 0

\* C37: scrape_post_urls_from_feed returns at most max_urls URLs, whatever
\* the snapshots were.
C37_AtMostMaxUrls ==
    fpc = "returned" => Cardinality(post_urls) <= f_max_urls

---------------------------------------------------------------------------
(* Claims about the end of main() (SpecMain).                              *)

\* C38: once the operator has answered the 'scrape more' question with
\* anything but 'y', main() navigates nowhere, checks no login, logs in
\* nowhere and scrapes nothing: from the answer on (position "get": the
\* loop is left, nothing done yet) it only releases the driver.
C38_NothingAfterNo ==
    phase = "post" => mpc \in {"get", "finally", "done"}

---------------------------------------------------------------------------
(* Claims about the processed check of process_reel_batch (SpecDb).        *)

\* C39: once bulk_insert_reels has stored the record get_reel_info produced
\* for a reel URL, is_reel_processed answers True for that URL, so
\* process_reel_batch schedules no scrape for a URL whose record the
\* collection already held when the batch started.
C39_StoredIsProcessed ==
    lastScheduled \cap {UrlOfDoc(d) : d \in reelsBefore} = {}

===========================================================================
